---- MODULE Spec2Model ----
(***************************************************************************)
(* Model of the client-side data/notification derivation engine of the    *)
(* task manager: the notification reconciliation effect and the read      *)
(* sweep of App.tsx, the medicine alert deriver of utils/medicineAlerts,  *)
(* and the storage abstraction of services/db.ts with its sticky          *)
(* fallback.                                                               *)
(*                                                                         *)
(* Time is counted in hours since local midnight of 1 January EpochYear,  *)
(* so MS_HOUR is 1 and MS_DAY is 24; local time has no DST shift.         *)
(***************************************************************************)
EXTENDS Integers, Sequences, FiniteSets, TLC

\* ------------------------------------------------------------------ bounds
\* records ever created plus day rollovers of the clock
MaxGrowth == 2
\* storage calls made in a run
MaxCalls == 3
\* manual operations on the medicine panel plus midnights that pass, in a run
MaxMedSteps == 4
\* days of the calendar asked about, from 1 January of the first year
MaxCalDays == 425
\* tasks added to the list of the daily top 5, in a run
MaxTopTodos == 6
\* midnights that pass over the list of the daily top 5, in a run
MaxTopDays == 1
\* task edits seen by the daily top sync effect, in a run
MaxSyncEdits == 3
\* calls of syncDailyTopSnapshot awaiting their response at one time
MaxInFlight == 2
\* reminders sent to the endpoint, in a run
MaxReminders == 2

\* write sequences that may still be awaited when the next event arrives, in the
\* runs where events do not wait for the store
MaxOverlap == 1

\* ------------------------------------------------------- program constants
MS_HOUR == 1
MS_DAY == 24
HIGH_EXPENSE_THRESHOLD == 50000
NOTIFICATION_WINDOW_DAYS == 6
REFILL_SOON_DAYS == 7
DEFAULT_REMAINING_DAYS == 30
EpochYear == 2023
TickHours == 24
InitialNow == 12

\* the value of an optional numeric field that is absent (undefined)
Undefined == -1

\* --------------------------------------------------------------- calendar
IsLeapYear(y) == (y % 4 = 0 /\ y % 100 # 0) \/ y % 400 = 0

DaysInYear(y) == IF IsLeapYear(y) THEN 366 ELSE 365

DaysInMonth(y, m) ==
  IF m = 2 THEN (IF IsLeapYear(y) THEN 29 ELSE 28)
  ELSE IF m \in {4, 6, 9, 11} THEN 30 ELSE 31

RECURSIVE CivilFrom(_, _, _)
\* the calendar date of day index d counted from the first day of month m of year y
CivilFrom(y, m, d) ==
  IF d < DaysInMonth(y, m) THEN [year |-> y, month |-> m, date |-> d + 1]
  ELSE IF m = 12 THEN CivilFrom(y + 1, 1, d - DaysInMonth(y, m))
  ELSE CivilFrom(y, m + 1, d - DaysInMonth(y, m))

\* new Date(ts): the local calendar fields of a timestamp
DateOf(ts) == CivilFrom(EpochYear, 1, ts \div MS_DAY)

\* getDayStartTs: local midnight of the timestamp's day
getDayStartTs(timestamp) == timestamp - (timestamp % MS_DAY)

\* isExpenseDueOnDay without the early return for days before the anchor
isExpenseDueOnDay_noAnchorGuard(expense, dayStartTs) ==
  LET anchorDayStart == getDayStartTs(expense.date) IN
  IF expense.frequency = "weekly"
    THEN LET diffDays == (dayStartTs - anchorDayStart) \div MS_DAY IN diffDays % 7 = 0
    ELSE LET anchorDate == DateOf(anchorDayStart)
             targetDate == DateOf(dayStartTs)
             lastDayOfMonth == DaysInMonth(targetDate.year, targetDate.month)
             expectedDay == IF anchorDate.date < lastDayOfMonth
                              THEN anchorDate.date ELSE lastDayOfMonth
         IN targetDate.date = expectedDay

\* isExpenseDueOnDay without the clamp to the month's last day
isExpenseDueOnDay_noClamp(expense, dayStartTs) ==
  LET anchorDayStart == getDayStartTs(expense.date) IN
  IF dayStartTs < anchorDayStart THEN FALSE
  ELSE IF expense.frequency = "weekly"
    THEN LET diffDays == (dayStartTs - anchorDayStart) \div MS_DAY IN diffDays % 7 = 0
    ELSE DateOf(dayStartTs).date = DateOf(anchorDayStart).date

\* isExpenseDueOnDay
isExpenseDueOnDay(expense, dayStartTs) ==
  LET anchorDayStart == getDayStartTs(expense.date) IN
  IF dayStartTs < anchorDayStart THEN FALSE
  ELSE IF expense.frequency = "weekly"
    THEN LET diffDays == (dayStartTs - anchorDayStart) \div MS_DAY IN diffDays % 7 = 0
    ELSE LET anchorDate == DateOf(anchorDayStart)
             targetDate == DateOf(dayStartTs)
             lastDayOfMonth == DaysInMonth(targetDate.year, targetDate.month)
             expectedDay == IF anchorDate.date < lastDayOfMonth
                              THEN anchorDate.date ELSE lastDayOfMonth
         IN targetDate.date = expectedDay

\* ------------------------------------------------------- medicine alerts
Max(a, b) == IF a > b THEN a ELSE b

Min(a, b) == IF a < b THEN a ELSE b

\* getRemainingDays without the floor at zero
getRemainingDays_noFloor(med, todayStart) ==
  LET lastUpdated == IF med.lastUpdated = Undefined THEN todayStart ELSE med.lastUpdated
      remaining == IF med.remaining = Undefined THEN DEFAULT_REMAINING_DAYS ELSE med.remaining
  IN remaining - Max(0, (todayStart - lastUpdated) \div MS_DAY)

\* getRemainingDays (lastUpdated defaults to todayStart, remaining to 30)
getRemainingDays(med, todayStart) ==
  LET lastUpdated == IF med.lastUpdated = Undefined THEN todayStart ELSE med.lastUpdated
      remaining == IF med.remaining = Undefined THEN DEFAULT_REMAINING_DAYS ELSE med.remaining
      daysPassed == Max(0, (todayStart - lastUpdated) \div MS_DAY)
  IN Max(0, remaining - daysPassed)

\* the alerts of one medicine with the refill-soon test written as > instead of >=
AlertsOfMedicine_strictSoon(med, todayStart) ==
  IF ~med.alarmEnabled THEN << >>
  ELSE LET remainingDays == getRemainingDays(med, todayStart)
           endTs == todayStart + remainingDays * MS_DAY
           endAlert == [medicineId |-> med.id, label |-> <<med.name, "ends">>,
                        kind |-> "refill-end", scheduledAt |-> endTs]
       IN IF remainingDays > REFILL_SOON_DAYS
            THEN <<endAlert,
                   [medicineId |-> med.id, label |-> <<med.name, "refill soon">>,
                    kind |-> "refill-soon",
                    scheduledAt |-> todayStart + (remainingDays - REFILL_SOON_DAYS) * MS_DAY]>>
            ELSE <<endAlert>>

\* the alerts of one medicine with the end counted from today by the stored remaining
\* days, not by getRemainingDays
AlertsOfMedicine_storedRemaining(med, todayStart) ==
  IF ~med.alarmEnabled THEN << >>
  ELSE LET remainingDays == med.remaining
           endTs == todayStart + remainingDays * MS_DAY
           endAlert == [medicineId |-> med.id, label |-> <<med.name, "ends">>,
                        kind |-> "refill-end", scheduledAt |-> endTs]
       IN IF remainingDays >= REFILL_SOON_DAYS
            THEN <<endAlert,
                   [medicineId |-> med.id, label |-> <<med.name, "refill soon">>,
                    kind |-> "refill-soon",
                    scheduledAt |-> todayStart + (remainingDays - REFILL_SOON_DAYS) * MS_DAY]>>
            ELSE <<endAlert>>

\* the alerts buildMedicineAlerts pushes for one medicine
AlertsOfMedicine(med, todayStart) ==
  IF ~med.alarmEnabled THEN << >>
  ELSE LET remainingDays == getRemainingDays(med, todayStart)
           endTs == todayStart + remainingDays * MS_DAY
           endAlert == [medicineId |-> med.id, label |-> <<med.name, "ends">>,
                        kind |-> "refill-end", scheduledAt |-> endTs]
       IN IF remainingDays >= REFILL_SOON_DAYS
            THEN <<endAlert,
                   [medicineId |-> med.id, label |-> <<med.name, "refill soon">>,
                    kind |-> "refill-soon",
                    scheduledAt |-> todayStart + (remainingDays - REFILL_SOON_DAYS) * MS_DAY]>>
            ELSE <<endAlert>>

RECURSIVE buildMedicineAlerts(_, _)
buildMedicineAlerts(meds, todayStart) ==
  IF meds = << >> THEN << >>
  ELSE AlertsOfMedicine(Head(meds), todayStart) \o buildMedicineAlerts(Tail(meds), todayStart)


\* ------------------------------------------------------------------ state
VARIABLES
  nowTs,          \* App state nowTs (Date.now() at the last clock tick or focus)
  todos,          \* App state todos: sequence of Todo
  medicines,      \* App state medicines: sequence of Medicine
  expenses,       \* App state expenses: sequence of Expense
  notifications,  \* App state notifications (the feed), queued updaters applied
  rendered,       \* the notifications value captured by the effects of the current render
  phase,          \* "idle", or the effect that runs next in the current flush: "rec", "sweep"
  sweepDue,       \* the sweep effect's dependencies changed in the current render
  setCalled,      \* an effect of the current flush called setNotifications
  notifStore,     \* the persisted `notifications` collection
  pending,        \* write sequences issued to the store and not yet completed, in the
                  \* order in which their next write was handed to the store
  created,        \* how many ids crypto.randomUUID() has produced
  readSince       \* history: the ids of the open, dated tasks whose notification has
                  \* been in the feed as read since the task last changed and the user
                  \* has not marked unread again

VARIABLE
  overlap         \* how many write sequences may still be awaited when the next user
                  \* or clock event arrives (the same for a whole run)

nvars == <<nowTs, todos, medicines, expenses, notifications, rendered, phase,
           sweepDue, setCalled, notifStore, pending, created, readSince>>

\* ---------------------------------------------------------------- helpers
Range(s) == {s[i] : i \in 1..Len(s)}

Ids(s) == {s[i].id : i \in 1..Len(s)}

\* Array.prototype.map with a per-id replacement: prev.map(x => x.id === item.id ? item : x)
ReplaceById(s, item) == [i \in 1..Len(s) |-> IF s[i].id = item.id THEN item ELSE s[i]]

\* prev.filter(x => x.id !== id)
RemoveById(s, id) == SelectSeq(s, LAMBDA x : x.id # id)

\* Array.prototype.findIndex, 0 for -1
RECURSIVE FindIndexFrom(_, _, _)
FindIndexFrom(s, id, i) ==
  IF i > Len(s) THEN 0 ELSE IF s[i].id = id THEN i ELSE FindIndexFrom(s, id, i + 1)

findIndex(s, id) == FindIndexFrom(s, id, 1)

\* new Map(notifications.map(n => [n.id, n])).get(id): the last entry with that id
existingOf(feed, id) ==
  LET hits == {i \in 1..Len(feed) : feed[i].id = id} IN
  feed[CHOOSE i \in hits : \A j \in hits : j <= i]

\* deterministic notification ids `todo:<id>`, `medicine:<id>:<kind>:<day>`,
\* `expense:<id>:due:<day>`, and the random id of a reminder
NotifId(src, ent, kind, day) == [src |-> src, ent |-> ent, kind |-> kind, day |-> day]

windowStartOf(ts) == getDayStartTs(ts)

notificationWindowStartTs == windowStartOf(nowTs)

\* ------------------------------------------------- the desired set (bases)
todoBase(todo) ==
  [id |-> NotifId("todo", todo.id, "", Undefined),
   message |-> <<todo.text>>, source |-> "todo", kind |-> "todo-due",
   scheduledAt |-> getDayStartTs(todo.dueDate), createdAt |-> todo.createdAt,
   todoId |-> todo.id, entityId |-> todo.id, read |-> FALSE]

\* mutant of skipsTodo: completed tasks keep their notification
skipsTodo_ignoreCompleted(todo) == todo.dueDate = Undefined

\* if (!todo.dueDate || todo.completed) return;
skipsTodo(todo) == todo.dueDate = Undefined \/ todo.completed

RECURSIVE todoBases(_)
todoBases(ts) ==
  IF ts = << >> THEN << >>
  ELSE (IF skipsTodo(Head(ts)) THEN << >> ELSE <<todoBase(Head(ts))>>) \o todoBases(Tail(ts))

medicineBase(alert, ws, clock) ==
  LET scheduledAt == getDayStartTs(alert.scheduledAt) IN
  [id |-> NotifId("medicine", alert.medicineId, alert.kind, scheduledAt),
   message |-> alert.label, source |-> "medicine",
   kind |-> IF alert.kind = "refill-end" THEN "medicine-refill-end" ELSE "medicine-refill-soon",
   scheduledAt |-> scheduledAt, createdAt |-> clock,
   todoId |-> Undefined, entityId |-> alert.medicineId, read |-> FALSE]

medicineInWindow(alert, ws) ==
  LET offset == (getDayStartTs(alert.scheduledAt) - ws) \div MS_DAY IN
  ~(offset < 0 \/ offset > NOTIFICATION_WINDOW_DAYS)

RECURSIVE medicineBases(_, _, _)
medicineBases(alerts, ws, clock) ==
  IF alerts = << >> THEN << >>
  ELSE (IF medicineInWindow(Head(alerts), ws)
          THEN <<medicineBase(Head(alerts), ws, clock)>> ELSE << >>)
       \o medicineBases(Tail(alerts), ws, clock)

expenseBase(expense, dayStartTs, clock) ==
  [id |-> NotifId("expense", expense.id, "due", dayStartTs),
   message |-> <<expense.title, "due", expense.amount>>, source |-> "expense",
   kind |-> "expense-due", scheduledAt |-> dayStartTs, createdAt |-> clock,
   todoId |-> Undefined, entityId |-> expense.id, read |-> FALSE]

RECURSIVE expenseDays(_, _, _, _)
\* windowDayStarts.forEach for one expense, offsets from..NOTIFICATION_WINDOW_DAYS
expenseDays(expense, ws, from, clock) ==
  IF from > NOTIFICATION_WINDOW_DAYS THEN << >>
  ELSE (IF isExpenseDueOnDay(expense, ws + from * MS_DAY)
          THEN <<expenseBase(expense, ws + from * MS_DAY, clock)>> ELSE << >>)
       \o expenseDays(expense, ws, from + 1, clock)

RECURSIVE expenseBases(_, _, _)
expenseBases(es, ws, clock) ==
  IF es = << >> THEN << >>
  ELSE (IF Head(es).amount < HIGH_EXPENSE_THRESHOLD
          THEN << >> ELSE expenseDays(Head(es), ws, 0, clock))
       \o expenseBases(Tail(es), ws, clock)

\* every base the pass hands to upsertGenerated, in the order of the code
desiredBases(ts, ms, es, ws, clock) ==
  todoBases(ts) \o medicineBases(buildMedicineAlerts(ms, ws), ws, clock)
    \o expenseBases(es, ws, clock)


\* --------------------------------------------------- the reconciliation pass
\* upsertLocal: replace the first entry with the id, or unshift
upsertLocal(next, item) ==
  LET idx == findIndex(next, item.id) IN
  IF idx = 0 THEN <<item>> \o next ELSE [next EXCEPT ![idx] = item]

\* mutant of mergeExisting: the read flag comes from the regenerated base
mergeExisting_readFromBase(existing, base) ==
  [base EXCEPT !.createdAt = IF existing.createdAt = Undefined
                               THEN base.createdAt ELSE existing.createdAt]

\* the merge of upsertGenerated: base's fields over the existing entry,
\* with the existing read flag and createdAt
mergeExisting(existing, base) ==
  [base EXCEPT !.read = existing.read,
               !.createdAt = IF existing.createdAt = Undefined
                               THEN base.createdAt ELSE existing.createdAt]

\* mutant of needsUpdate: every kept entry is written back
needsUpdate_always(existing, nextItem) == TRUE

needsUpdate(existing, nextItem) ==
  \/ existing.message # nextItem.message
  \/ existing.scheduledAt # nextItem.scheduledAt
  \/ existing.source # nextItem.source
  \/ existing.todoId # nextItem.todoId
  \/ existing.entityId # nextItem.entityId
  \/ existing.kind # nextItem.kind

\* upsertGenerated on the pass state acc = [next, keep, updates]; feed is the
\* notifications value the pass started from
upsertGenerated(feed, acc, base) ==
  LET keep == acc.keep \cup {base.id} IN
  IF base.id \notin Ids(feed)
    THEN [next |-> upsertLocal(acc.next, base), keep |-> keep,
          updates |-> Append(acc.updates, base)]
    ELSE LET existing == existingOf(feed, base.id)
             nextItem == mergeExisting(existing, base)
         IN IF needsUpdate(existing, nextItem)
              THEN [next |-> upsertLocal(acc.next, nextItem), keep |-> keep,
                    updates |-> Append(acc.updates, nextItem)]
              ELSE [next |-> acc.next, keep |-> keep, updates |-> acc.updates]

RECURSIVE upsertAll(_, _, _)
upsertAll(feed, acc, bases) ==
  IF bases = << >> THEN acc
  ELSE upsertAll(feed, upsertGenerated(feed, acc, Head(bases)), Tail(bases))

\* mutant of staleIds: only todo entries are ever pruned
staleIds_onlyTodo(feed, keep) ==
  LET stale == SelectSeq(feed, LAMBDA item : item.source = "todo" /\ item.id \notin keep)
  IN [i \in 1..Len(stale) |-> stale[i].id]

\* mutant of staleIds: reminders are pruned like generated entries
staleIds_noReminderGuard(feed, keep) ==
  LET stale == SelectSeq(feed, LAMBDA item : item.id \notin keep)
  IN [i \in 1..Len(stale) |-> stale[i].id]

\* notifications.forEach: ids of generated entries that are not kept
staleIds(feed, keep) ==
  LET stale == SelectSeq(feed, LAMBDA item : item.source # "reminder" /\ item.id \notin keep)
  IN [i \in 1..Len(stale) |-> stale[i].id]

\* the synchronous part of syncGeneratedNotifications: the new feed (when it
\* is replaced), the putItem list and the deleteItem list
syncGeneratedNotifications(feed, ts, ms, es, ws, clock) ==
  LET acc == upsertAll(feed, [next |-> feed, keep |-> {}, updates |-> << >>],
                       desiredBases(ts, ms, es, ws, clock))
      deletions == staleIds(feed, acc.keep)
      changed == Len(acc.updates) > 0 \/ Len(deletions) > 0
      toDeleteSet == Range(deletions)
  IN [changed |-> changed,
      filtered |-> SelectSeq(acc.next, LAMBDA n : n.id \notin toDeleteSet),
      updates |-> acc.updates,
      deletions |-> deletions]

\* the awaited writes of a pass: every putItem, then every deleteItem
PutOps(items, by) ==
  [i \in 1..Len(items) |-> [op |-> "put", id |-> items[i].id, item |-> <<items[i]>>, by |-> by]]

DelOps(ids, by) ==
  [i \in 1..Len(ids) |-> [op |-> "del", id |-> ids[i], item |-> << >>, by |-> by]]

\* issue a sequence of awaited writes (nothing is issued for an empty sequence)
Issue(queue, ops) == IF ops = << >> THEN queue ELSE Append(queue, ops)

\* issue writes that are not awaited: each is handed to the store at once
IssueEach(queue, ops) == queue \o [i \in 1..Len(ops) |-> <<ops[i]>>]

\* the next user or clock event arrives when the effects have run and no more
\* than `overlap` write sequences are still awaited
Quiet == phase = "idle" /\ Len(pending) <= overlap

\* records created and day rollovers so far stay within the model's bound
CanGrow == created + nowTs \div MS_DAY < MaxGrowth

\* the end of an effect flush: a setNotifications call re-renders, and both
\* notification effects run again on the new value
EndFlush(called, feed) ==
  /\ phase' = IF called THEN "rec" ELSE "idle"
  /\ sweepDue' = called
  /\ setCalled' = FALSE
  /\ rendered' = feed

ReconcileEffect ==
  /\ phase = "rec"
  /\ LET pass == syncGeneratedNotifications(rendered, todos, medicines, expenses,
                                            notificationWindowStartTs, nowTs)
         ops == PutOps(pass.updates, "rec") \o DelOps(pass.deletions, "rec")
     IN /\ notifications' = IF pass.changed THEN pass.filtered ELSE notifications
        /\ pending' = Issue(pending, ops)
        /\ IF sweepDue
             THEN /\ phase' = "sweep"
                  /\ setCalled' = pass.changed
                  /\ UNCHANGED <<sweepDue, rendered>>
             ELSE EndFlush(pass.changed, notifications')
  /\ UNCHANGED <<nowTs, todos, medicines, expenses, notifStore, created>>

\* mutant of sweepTargets: read entries of today are swept too
sweepTargets_inclusive(feed, clock) ==
  SelectSeq(feed, LAMBDA item : item.read /\ getDayStartTs(item.scheduledAt) <= getDayStartTs(clock))

\* mutant of sweepTargets: unread entries of earlier days are swept too
sweepTargets_ignoreRead(feed, clock) ==
  SelectSeq(feed, LAMBDA item : getDayStartTs(item.scheduledAt) < getDayStartTs(clock))

\* the read-notification sweep effect
sweepTargets(feed, clock) ==
  SelectSeq(feed, LAMBDA item : item.read /\ getDayStartTs(item.scheduledAt) < getDayStartTs(clock))

SweepEffect ==
  /\ phase = "sweep"
  /\ LET toDelete == sweepTargets(rendered, nowTs)
         toDeleteIds == Ids(toDelete)
         ops == DelOps([i \in 1..Len(toDelete) |-> toDelete[i].id], "sweep")
     IN /\ notifications' = IF Len(toDelete) = 0 THEN notifications
                            ELSE SelectSeq(notifications, LAMBDA item : item.id \notin toDeleteIds)
        /\ pending' = IssueEach(pending, ops)
        /\ EndFlush(setCalled \/ Len(toDelete) > 0, notifications')
  /\ UNCHANGED <<nowTs, todos, medicines, expenses, notifStore, created>>

\* ----------------------------------------------------------------- storage
\* db.putItem / db.deleteItem on the `notifications` collection (keyPath id)
StorePut(store, item) == {r \in store : r.id # item.id} \cup {item}

StoreDelete(store, id) == {r \in store : r.id # id}

ApplyOp(store, o) == IF o.op = "put" THEN StorePut(store, o.item[1]) ELSE StoreDelete(store, o.id)

\* the store completes the writes on `notifications` in the order in which they
\* were handed to it (readwrite transactions on one object store); the sequence
\* that awaited the write then hands over its next write, behind those of the
\* other sequences
StoreStep ==
  /\ pending # << >>
  /\ notifStore' = ApplyOp(notifStore, Head(pending[1]))
  /\ pending' = IF Len(pending[1]) = 1 THEN Tail(pending)
                  ELSE Append(Tail(pending), Tail(pending[1]))
  /\ UNCHANGED <<nowTs, todos, medicines, expenses, notifications, rendered, phase,
                 sweepDue, setCalled, created>>

\* ------------------------------------------------------------ user inputs
TodoTexts == {"a", "b"}

\* due dates are normalised to local noon: the first day's and the next day's
DueDates == {12 * MS_HOUR, MS_DAY + 12 * MS_HOUR}

RemainingInputs == {1, REFILL_SOON_DAYS}

ExpenseAmounts == {20000, 90000}

Frequencies == {"weekly"}

\* ----------------------------------------------------------------- events
\* a state change re-renders; the effects whose dependencies changed run
StartFlush(recDue, sweepIsDue, feed) ==
  /\ phase' = IF recDue THEN "rec" ELSE "sweep"
  /\ sweepDue' = sweepIsDue
  /\ setCalled' = FALSE
  /\ rendered' = feed

DataChanged ==
  /\ StartFlush(TRUE, FALSE, notifications)
  /\ UNCHANGED <<nowTs, notifications, notifStore, pending>>

addTodo ==
  /\ Quiet
  /\ CanGrow
  /\ \E text \in TodoTexts, due \in DueDates \cup {Undefined} :
       LET newTodo == [id |-> created + 1, text |-> text, completed |-> FALSE,
                       createdAt |-> nowTs, dueDate |-> due]
       IN todos' = <<newTodo>> \o todos
  /\ created' = created + 1
  /\ DataChanged
  /\ UNCHANGED <<medicines, expenses>>

\* handleUpdateTodo with the edits of TodoItem: completion toggle, due date, text
handleUpdateTodo ==
  /\ Quiet
  /\ \E i \in 1..Len(todos) :
       \E updatedTodo \in
            {[todos[i] EXCEPT !.completed = ~todos[i].completed]}
            \cup {[todos[i] EXCEPT !.dueDate = d] : d \in DueDates \cup {Undefined}}
            \cup {[todos[i] EXCEPT !.text = x] : x \in TodoTexts} :
         /\ updatedTodo # todos[i]
         /\ todos' = ReplaceById(todos, updatedTodo)
  /\ DataChanged
  /\ UNCHANGED <<medicines, expenses, created>>

deleteTodo ==
  /\ Quiet
  /\ \E i \in 1..Len(todos) : todos' = RemoveById(todos, todos[i].id)
  /\ DataChanged
  /\ UNCHANGED <<medicines, expenses, created>>

\* MedicinePanel.addMedicine through handleAddMedicine
handleAddMedicine ==
  /\ Quiet
  /\ CanGrow
  /\ \E remainingInput \in RemainingInputs, calendarAlarm \in BOOLEAN :
       LET newMed == [id |-> created + 1, name |-> "Med",
                      remaining |-> IF remainingInput = 0 THEN DEFAULT_REMAINING_DAYS
                                    ELSE remainingInput,
                      lastUpdated |-> getDayStartTs(nowTs),
                      alarmEnabled |-> calendarAlarm]
       IN medicines' = Append(medicines, newMed)
  /\ created' = created + 1
  /\ DataChanged
  /\ UNCHANGED <<todos, expenses>>

\* MedicinePanel.toggleCalendarAlarm and setRemainingExact through handleUpdateMedicine
handleUpdateMedicine ==
  /\ Quiet
  /\ \E i \in 1..Len(medicines) :
       \E updatedMed \in
            {[medicines[i] EXCEPT !.alarmEnabled = ~medicines[i].alarmEnabled]}
            \cup {[medicines[i] EXCEPT !.remaining = v, !.lastUpdated = getDayStartTs(nowTs)]
                    : v \in RemainingInputs} :
         /\ updatedMed # medicines[i]
         /\ medicines' = ReplaceById(medicines, updatedMed)
  /\ DataChanged
  /\ UNCHANGED <<todos, expenses, created>>

handleDeleteMedicine ==
  /\ Quiet
  /\ \E i \in 1..Len(medicines) : medicines' = RemoveById(medicines, medicines[i].id)
  /\ DataChanged
  /\ UNCHANGED <<todos, expenses, created>>

handleAddExpense ==
  /\ Quiet
  /\ CanGrow
  /\ \E amount \in ExpenseAmounts, frequency \in Frequencies :
       LET exp == [id |-> created + 1, title |-> "Exp", amount |-> amount,
                   frequency |-> frequency, date |-> nowTs]
       IN expenses' = Append(expenses, exp)
  /\ created' = created + 1
  /\ DataChanged
  /\ UNCHANGED <<todos, medicines>>

handleUpdateExpense ==
  /\ Quiet
  /\ \E i \in 1..Len(expenses) :
       \E updatedExp \in
            {[expenses[i] EXCEPT !.amount = a] : a \in ExpenseAmounts}
            \cup {[expenses[i] EXCEPT !.frequency = f] : f \in Frequencies} :
         /\ updatedExp # expenses[i]
         /\ expenses' = ReplaceById(expenses, updatedExp)
  /\ DataChanged
  /\ UNCHANGED <<todos, medicines, created>>

handleDeleteExpense ==
  /\ Quiet
  /\ \E i \in 1..Len(expenses) : expenses' = RemoveById(expenses, expenses[i].id)
  /\ DataChanged
  /\ UNCHANGED <<todos, medicines, created>>

\* the 10 s interval and the focus handler: setNowTs(Date.now())
ClockTick ==
  /\ Quiet
  /\ CanGrow
  /\ nowTs' = nowTs + TickHours
  /\ StartFlush(windowStartOf(nowTs') # windowStartOf(nowTs), TRUE, notifications)
  /\ UNCHANGED <<todos, medicines, expenses, notifications, notifStore, pending, created>>

\* the notification centre lists the entries of today..today+6 (filter `week`)
visibleInCentre(item) ==
  LET offset == (getDayStartTs(item.scheduledAt) - getDayStartTs(nowTs)) \div MS_DAY IN
  offset >= 0 /\ offset <= 6

toggleNotificationRead ==
  /\ Quiet
  /\ \E i \in 1..Len(notifications) :
       LET item == notifications[i]
           nextRead == ~item.read
           ops == PutOps(<<[item EXCEPT !.read = nextRead]>>, "user")
       IN /\ visibleInCentre(item)
          /\ notifications' = [k \in 1..Len(notifications) |->
                                 IF notifications[k].id = item.id
                                   THEN [notifications[k] EXCEPT !.read = nextRead]
                                   ELSE notifications[k]]
          /\ pending' = Issue(pending, ops)
  /\ StartFlush(TRUE, TRUE, notifications')
  /\ UNCHANGED <<nowTs, todos, medicines, expenses, notifStore, created>>

\* a local reminder scheduled some hours or days ahead
createLocalNotification ==
  /\ Quiet
  /\ CanGrow
  /\ \E scheduledAt \in {nowTs + MS_HOUR, nowTs + MS_DAY} :
       LET newItem == [id |-> NotifId("reminder", created + 1, "", Undefined),
                       message |-> <<"r">>, source |-> "reminder", kind |-> "",
                       scheduledAt |-> scheduledAt, createdAt |-> nowTs,
                       todoId |-> Undefined, entityId |-> Undefined, read |-> FALSE]
           ops == PutOps(<<newItem>>, "user")
       IN /\ notifications' = <<newItem>> \o notifications
          /\ pending' = Issue(pending, ops)
  /\ created' = created + 1
  /\ StartFlush(TRUE, TRUE, notifications')
  /\ UNCHANGED <<nowTs, todos, medicines, expenses, notifStore>>

\* ---------------------------------------------------------------- history
TaskOf(tasks, id) == {tasks[i] : i \in {k \in 1..Len(tasks) : tasks[k].id = id}}

TodoNotifs(feed, id, read) ==
  {n \in Range(feed) : n.source = "todo" /\ n.todoId = id /\ n.read = read}

\* the task ids of a step in which the user marks the task's notification unread
MarkedUnread ==
  IF phase = "idle"
    THEN {n.todoId : n \in {m \in Range(notifications) :
                               /\ m.source = "todo" /\ m.read
                               /\ TodoNotifs(notifications', m.todoId, FALSE) # {}}}
    ELSE {}

\* the task is open and has a due date
OpenAndDated(tasks, id) ==
  \E t \in TaskOf(tasks, id) : ~t.completed /\ t.dueDate # Undefined

\* readSince after a step: the ids whose task the step left as it was, and the ids of
\* the open, dated tasks whose notification is now in the feed as read, without those
\* the user marked unread; a step that leaves the tasks and the feed as they are
\* leaves it as it is
TrackRead ==
  readSince' =
    IF todos' = todos /\ notifications' = notifications THEN readSince
    ELSE ({id \in readSince : TaskOf(todos', id) = TaskOf(todos, id)}
            \cup {n.todoId : n \in {m \in Range(notifications') :
                                       /\ m.source = "todo" /\ m.read
                                       /\ OpenAndDated(todos', m.todoId)}})
           \ MarkedUnread

\* ================================================ expense recurrence (App.tsx)
VARIABLES
  calExpense,  \* the expense asked about: its anchor date and frequency
  calDay,      \* the day asked about, as the start of that day
  calDue       \* what isExpenseDueOnDay(calExpense, calDay) returned

cvars == <<calExpense, calDay, calDue>>

\* anchors at noon of 10, 29, 30 and 31 January of the first year
AnchorDates == {d * MS_DAY + 12 * MS_HOUR : d \in {9, 28, 29, 30}}

AllFrequencies == {"weekly", "monthly"}

\* the calendar view asks about the next day
askNextDay ==
  /\ calDay < MaxCalDays * MS_DAY
  /\ calDay' = calDay + MS_DAY
  /\ calDue' = isExpenseDueOnDay(calExpense, calDay + MS_DAY)
  /\ UNCHANGED calExpense

CalFresh ==
  /\ calExpense = [date |-> 12 * MS_HOUR, frequency |-> "weekly"]
  /\ calDay = 0
  /\ calDue = TRUE

CalAsked ==
  /\ calExpense \in [date : AnchorDates, frequency : AllFrequencies]
  /\ calDay = 0
  /\ calDue = isExpenseDueOnDay(calExpense, 0)

\* ================================================ daily top 5 (App.tsx)
VARIABLES
  topTodos,   \* the todos handed to buildDailyTop5Snapshot, newest first
  topNowTs    \* the nowTs handed to it

tvars == <<topTodos, topNowTs>>

\* toBogotaDateKey: the YYYY-MM-DD key of the timestamp's day, as the number YYYYMMDD
\* (keys are compared as strings of fixed width, which orders them as these numbers)
toBogotaDateKey(timestamp) ==
  LET d == DateOf(timestamp) IN d.year * 10000 + d.month * 100 + d.date

\* DAILY_TOP_PRIORITY_WEIGHT[priority || 'P4']
priorityOrP4(priority) == IF priority = "" THEN "P4" ELSE priority

DAILY_TOP_PRIORITY_WEIGHT(priority) ==
  CASE priority = "P1" -> 1 [] priority = "P2" -> 2 [] priority = "P3" -> 3 [] priority = "P4" -> 4

\* Math.round of a number given in tenths: the nearest integer, halves upwards
round(tenths) == (tenths + 5) \div 10

\* Math.max(1, Math.round(complexity || 1)), complexity in tenths
topNumber(complexity) ==
  Max(1, round(IF complexity = Undefined \/ complexity = 0 THEN 10 ELSE complexity))

\* the comparator that skips the complexity numbers
topCompare_ignoresNumber(a, b) ==
  LET pa == DAILY_TOP_PRIORITY_WEIGHT(priorityOrP4(a.priority))
      pb == DAILY_TOP_PRIORITY_WEIGHT(priorityOrP4(b.priority))
  IN IF pa # pb THEN pa - pb ELSE a.createdAt - b.createdAt

\* the comparator of the sort: negative, zero or positive
topCompare(a, b) ==
  LET pa == DAILY_TOP_PRIORITY_WEIGHT(priorityOrP4(a.priority))
      pb == DAILY_TOP_PRIORITY_WEIGHT(priorityOrP4(b.priority))
      na == topNumber(a.complexity)
      nb == topNumber(b.complexity)
  IN IF pa # pb THEN pa - pb
     ELSE IF na # nb THEN na - nb
     ELSE (IF a.createdAt = Undefined THEN 0 ELSE a.createdAt)
            - (IF b.createdAt = Undefined THEN 0 ELSE b.createdAt)

\* the filter that also lets completed tasks through
isTopCandidate_ignoreCompleted(todo, todayKey) ==
  IF todo.dueDate = Undefined \/ todo.dueDate = 0 THEN FALSE
  ELSE toBogotaDateKey(todo.dueDate) <= todayKey

\* the filter of buildDailyTop5Snapshot
isTopCandidate(todo, todayKey) ==
  IF todo.completed THEN FALSE
  ELSE IF todo.dueDate = Undefined \/ todo.dueDate = 0 THEN FALSE
  ELSE toBogotaDateKey(todo.dueDate) <= todayKey

\* Array.prototype.sort with the comparator: stable
RECURSIVE insertSorted(_, _)
insertSorted(sorted, x) ==
  IF sorted = << >> THEN <<x>>
  ELSE IF topCompare(Head(sorted), x) <= 0
    THEN <<Head(sorted)>> \o insertSorted(Tail(sorted), x)
    ELSE <<x>> \o sorted

RECURSIVE sortTop(_)
sortTop(list) ==
  IF list = << >> THEN << >>
  ELSE insertSorted(sortTop(SubSeq(list, 1, Len(list) - 1)), list[Len(list)])

\* String.prototype.trim on a text given as its characters
RECURSIVE trimStart(_)
trimStart(text) ==
  IF text # << >> /\ Head(text) = " " THEN trimStart(Tail(text)) ELSE text

RECURSIVE trimEnd(_)
trimEnd(text) ==
  IF text # << >> /\ text[Len(text)] = " "
    THEN trimEnd(SubSeq(text, 1, Len(text) - 1)) ELSE text

trim(text) == trimEnd(trimStart(text))

topEntry(todo) ==
  [id |-> todo.id,
   title |-> trim(todo.text),
   priority |-> priorityOrP4(todo.priority),
   number |-> topNumber(todo.complexity),
   due_date |-> toBogotaDateKey(todo.dueDate)]

buildDailyTop5Snapshot(list, now) ==
  LET todayKey == toBogotaDateKey(now)
      candidate == SelectSeq(list, LAMBDA todo : isTopCandidate(todo, todayKey))
      ordered == sortTop(candidate)
      first5 == SubSeq(ordered, 1, Min(5, Len(ordered)))
  IN [i \in 1..Len(first5) |-> topEntry(first5[i])]

\* the kinds of task added: completed, undated, due tomorrow, and three that are due;
\* complexity is in tenths
TopShapes ==
  { [completed |-> TRUE, dueDate |-> MS_DAY + 12 * MS_HOUR, priority |-> "P1",
     complexity |-> Undefined, text |-> <<"a">>],
    [completed |-> FALSE, dueDate |-> Undefined, priority |-> "P1",
     complexity |-> Undefined, text |-> <<"a">>],
    [completed |-> FALSE, dueDate |-> 2 * MS_DAY + 12 * MS_HOUR, priority |-> "P2",
     complexity |-> 30, text |-> <<"a">>],
    [completed |-> FALSE, dueDate |-> MS_DAY + 12 * MS_HOUR, priority |-> "P1",
     complexity |-> 90, text |-> <<"a">>],
    [completed |-> FALSE, dueDate |-> 12 * MS_HOUR, priority |-> "P1",
     complexity |-> 20, text |-> <<"a">>],
    [completed |-> FALSE, dueDate |-> 12 * MS_HOUR, priority |-> "",
     complexity |-> 0, text |-> <<" ", "b", " ">>] }

\* addTodo: a new task goes to the front of the list; Date.now() grows from one add to
\* the next, and createdAt is the place of the add in that order
addTopTodo ==
  /\ Len(topTodos) < MaxTopTodos
  /\ \E shape \in TopShapes :
       topTodos' = <<[id |-> Len(topTodos) + 1, createdAt |-> Len(topTodos) + 1,
                      completed |-> shape.completed, dueDate |-> shape.dueDate,
                      priority |-> shape.priority, complexity |-> shape.complexity,
                      text |-> shape.text]>> \o topTodos
  /\ UNCHANGED topNowTs

\* the clock tick after midnight
topDayRolls ==
  /\ topNowTs \div MS_DAY <= MaxTopDays
  /\ topNowTs' = topNowTs + MS_DAY
  /\ UNCHANGED topTodos

TopFresh ==
  /\ topTodos = << >>
  /\ topNowTs = MS_DAY + 12 * MS_HOUR

\* ============================================ daily top sync effect (App.tsx)
\* Times of this section are in milliseconds.
VARIABLES
  syncContent,                \* serializeDailyTop5(dailyTop5) of the latest render
  lastDailyTopHashRef,        \* lastDailyTopHashRef.current
  lastDailyTopAttemptHashRef, \* lastDailyTopAttemptHashRef.current
  attemptAge,     \* Date.now() - lastDailyTopAttemptAtRef.current, up to the cooldown
  syncTimer,      \* the pending timeout of the latest effect run, or NoTimer
  syncInFlight,   \* the calls of syncDailyTopSnapshot that await their response
  syncEdits,      \* task edits so far
  owed,           \* the content that became current unsynced and unattempted, until a call carries it
  superseding,    \* the unsynced content that replaced one whose call was in flight, until a call carries it
  settled,        \* the content whose call returned successfully while it was current
  sinceFailed     \* per content, the time since the start of its latest failed attempt

svars == <<syncContent, lastDailyTopHashRef, lastDailyTopAttemptHashRef, attemptAge,
           syncTimer, syncInFlight, syncEdits, owed, superseding, settled, sinceFailed>>

DAILY_TOP_SYNC_DEBOUNCE_MS == 1200

DAILY_TOP_RETRY_COOLDOWN_MS == 15 * 60 * 1000

\* the serialized snapshots: of the empty top 5, and of two others
SyncContents == {"[]", "A", "B"}

\* useRef('')
NoHash == ""

NoTimer == [hash |-> NoHash, left |-> Undefined]

\* a time that has grown by d, kept up to the cooldown
Aged(t, d) == Min(t + d, DAILY_TOP_RETRY_COOLDOWN_MS)

\* the early returns of the effect: the content is synced, or it was attempted within
\* the cooldown
effectReturnsEarly(nextHash) ==
  \/ nextHash = lastDailyTopHashRef
  \/ /\ nextHash = lastDailyTopAttemptHashRef
     /\ attemptAge < DAILY_TOP_RETRY_COOLDOWN_MS

\* a change of dailyTop5: the cleanup of the previous effect run (cancelled = true,
\* clearTimeout), then the effect with the new snapshot
runSyncEffect(nextHash) ==
  /\ syncInFlight' = [i \in 1..Len(syncInFlight) |->
                        [syncInFlight[i] EXCEPT !.cancelled = TRUE]]
  /\ IF effectReturnsEarly(nextHash)
       THEN /\ syncTimer' = NoTimer
            /\ UNCHANGED <<lastDailyTopAttemptHashRef, attemptAge>>
       ELSE /\ lastDailyTopAttemptHashRef' = nextHash
            /\ attemptAge' = 0
            /\ syncTimer' = [hash |-> nextHash, left |-> DAILY_TOP_SYNC_DEBOUNCE_MS]
  /\ UNCHANGED <<lastDailyTopHashRef, sinceFailed>>

\* the interval: setNowTs(Date.now()) gives a new dailyTop5 with the same content; the
\* moment of the call within its period is left open, as the moment of a focus is
SyncClockTick ==
  /\ runSyncEffect(syncContent)
  /\ UNCHANGED <<syncContent, syncEdits, owed, superseding, settled>>

\* handleFocus: setNowTs(Date.now())
handleFocus ==
  /\ runSyncEffect(syncContent)
  /\ UNCHANGED <<syncContent, syncEdits, owed, superseding, settled>>

\* a task edit: setTodos gives a new dailyTop5, with the same content or another
TaskEdit ==
  /\ syncEdits < MaxSyncEdits
  /\ syncEdits' = syncEdits + 1
  /\ \E nextHash \in SyncContents :
       /\ syncContent' = nextHash
       /\ runSyncEffect(nextHash)
       /\ IF nextHash = syncContent
            THEN UNCHANGED <<owed, superseding, settled>>
            ELSE /\ owed' = IF effectReturnsEarly(nextHash) THEN NoHash ELSE nextHash
                 /\ superseding' =
                      IF /\ nextHash # lastDailyTopHashRef
                         /\ \E i \in 1..Len(syncInFlight) :
                              syncInFlight[i].hash = syncContent
                        THEN nextHash ELSE NoHash
                 /\ settled' = NoHash

\* the timeout fires: syncDailyTopSnapshot(dailyTop5, DAILY_TOP_TZ) is called
TimerFires ==
  /\ syncTimer # NoTimer
  /\ syncTimer.left = 0
  /\ Len(syncInFlight) < MaxInFlight
  /\ syncInFlight' = Append(syncInFlight,
       [hash |-> syncTimer.hash, cancelled |-> FALSE, age |-> DAILY_TOP_SYNC_DEBOUNCE_MS])
  /\ syncTimer' = NoTimer
  /\ owed' = IF owed = syncTimer.hash THEN NoHash ELSE owed
  /\ superseding' = IF superseding = syncTimer.hash THEN NoHash ELSE superseding
  /\ UNCHANGED <<syncContent, lastDailyTopHashRef, lastDailyTopAttemptHashRef, attemptAge,
                 syncEdits, settled, sinceFailed>>

\* the sequence without its i-th element
WithoutAt(seq, i) == SubSeq(seq, 1, i - 1) \o SubSeq(seq, i + 1, Len(seq))

\* the response of a call arrives: the await returns (ok) or throws
CallReturns ==
  \E i \in 1..Len(syncInFlight) : \E ok \in BOOLEAN :
    LET call == syncInFlight[i] IN
    /\ syncInFlight' = WithoutAt(syncInFlight, i)
    /\ lastDailyTopHashRef' =
         IF ok /\ ~call.cancelled THEN call.hash ELSE lastDailyTopHashRef
    /\ settled' = IF ok /\ call.hash = syncContent THEN call.hash ELSE settled
    /\ sinceFailed' = IF ok THEN sinceFailed ELSE [sinceFailed EXCEPT ![call.hash] = call.age]
    /\ UNCHANGED <<syncContent, lastDailyTopAttemptHashRef, attemptAge, syncTimer,
                   syncEdits, owed, superseding>>

\* the times that are still short of the cooldown
SyncClocks ==
  {attemptAge} \cup {syncInFlight[i].age : i \in 1..Len(syncInFlight)}
    \cup {sinceFailed[h] : h \in SyncContents}

RunningClocks == {t \in SyncClocks : t # Undefined /\ t < DAILY_TOP_RETRY_COOLDOWN_MS}

\* the steps of time. With a timeout pending: to the moment it is due or, when it was
\* just set, to a moment before that. Without one: to the next moment at which one of
\* the times reaches the cooldown.
SyncPassSteps ==
  IF syncTimer # NoTimer
    THEN {syncTimer.left} \cup
         (IF syncTimer.left = DAILY_TOP_SYNC_DEBOUNCE_MS
            THEN {DAILY_TOP_SYNC_DEBOUNCE_MS \div 3} ELSE {})
    ELSE {DAILY_TOP_RETRY_COOLDOWN_MS - t : t \in
            {u \in RunningClocks : \A v \in RunningClocks : v <= u}}

\* time passes, not beyond the moment a timeout is due
SyncTimePasses ==
  \E d \in SyncPassSteps :
    /\ d > 0
    /\ attemptAge' = Aged(attemptAge, d)
    /\ syncTimer' = IF syncTimer = NoTimer THEN NoTimer
                    ELSE [syncTimer EXCEPT !.left = syncTimer.left - d]
    /\ syncInFlight' = [i \in 1..Len(syncInFlight) |->
                          [syncInFlight[i] EXCEPT !.age = Aged(syncInFlight[i].age, d)]]
    /\ sinceFailed' = [h \in SyncContents |->
                         IF sinceFailed[h] = Undefined THEN Undefined
                         ELSE Aged(sinceFailed[h], d)]
    /\ UNCHANGED <<syncContent, lastDailyTopHashRef, lastDailyTopAttemptHashRef, syncEdits,
                   owed, superseding, settled>>

\* before the first render: the refs as created, no task loaded
SyncFresh ==
  /\ syncContent = "[]"
  /\ lastDailyTopHashRef = NoHash
  /\ lastDailyTopAttemptHashRef = NoHash
  /\ attemptAge = DAILY_TOP_RETRY_COOLDOWN_MS
  /\ syncTimer = NoTimer
  /\ syncInFlight = << >>
  /\ syncEdits = 0
  /\ owed = NoHash
  /\ superseding = NoHash
  /\ settled = NoHash
  /\ sinceFailed = [h \in SyncContents |-> Undefined]

\* after the mount: the effects have run once, with the empty snapshot
SyncMounted ==
  /\ syncContent = "[]"
  /\ lastDailyTopHashRef = NoHash
  /\ lastDailyTopAttemptHashRef = "[]"
  /\ attemptAge = 0
  /\ syncTimer = [hash |-> "[]", left |-> DAILY_TOP_SYNC_DEBOUNCE_MS]
  /\ syncInFlight = << >>
  /\ syncEdits = 0
  /\ owed = "[]"
  /\ superseding = NoHash
  /\ settled = NoHash
  /\ sinceFailed = [h \in SyncContents |-> Undefined]

\* ===================================== reminders (App.tsx, reminderService.ts)
VARIABLES
  inputPriority,    \* the priority selected in the task input
  reminderText,     \* the text of the reminder panel, as its characters
  reminderOptions,  \* the actions ticked in the reminder panel
  outbox            \* the request bodies posted to /reminder, as they go on the wire

rvars == <<inputPriority, reminderText, reminderOptions, outbox>>

Priorities == {"P1", "P2", "P3", "P4"}

\* contextData without a priority
NoPriority == "undefined"

NaN == [kind |-> "NaN"]

Null == [kind |-> "null"]

NumberValue(n) == [kind |-> "number", n |-> n]

\* the decimal digits, as characters
DigitValue == [c \in {"0", "1", "2", "3", "4", "5", "6", "7", "8", "9"} |->
  CASE c = "0" -> 0 [] c = "1" -> 1 [] c = "2" -> 2 [] c = "3" -> 3 [] c = "4" -> 4
    [] c = "5" -> 5 [] c = "6" -> 6 [] c = "7" -> 7 [] c = "8" -> 8 [] c = "9" -> 9]

\* the characters of the priorities
CharsOf(priority) ==
  CASE priority = "P1" -> <<"P", "1">> [] priority = "P2" -> <<"P", "2">>
    [] priority = "P3" -> <<"P", "3">> [] priority = "P4" -> <<"P", "4">>

RECURSIVE DecimalValue(_)
DecimalValue(chars) ==
  IF chars = << >> THEN 0
  ELSE 10 * DecimalValue(SubSeq(chars, 1, Len(chars) - 1)) + DigitValue[chars[Len(chars)]]

\* Number(string): the value of a string of digits, 0 for the empty string, NaN for a
\* string with any other character
Number(chars) ==
  IF \A i \in 1..Len(chars) : chars[i] \in DOMAIN DigitValue
    THEN NumberValue(DecimalValue(chars))
    ELSE NaN

\* JSON.stringify of a number or null: NaN is written as null
stringifyNumber(value) == IF value = NaN THEN Null ELSE value

\* sendReminder: the body built from contextData, as JSON.stringify writes it
sendReminder(text, priority, type) ==
  [text |-> text,
   priority |-> stringifyNumber(IF priority = NoPriority THEN Null
                                ELSE Number(CharsOf(priority))),
   type |-> type,
   supplied |-> priority]

setInputPriority ==
  /\ \E p \in Priorities : inputPriority' = p
  /\ UNCHANGED <<reminderText, reminderOptions, outbox>>

setReminderText ==
  /\ \E text \in {<< >>, <<" ">>, <<"x">>} : reminderText' = text
  /\ UNCHANGED <<inputPriority, reminderOptions, outbox>>

\* setReminderOptions(prev => ({ ...prev, [key]: checked }))
toggleReminderOption ==
  /\ \E key \in DOMAIN reminderOptions : \E checked \in BOOLEAN :
       reminderOptions' = [reminderOptions EXCEPT ![key] = checked]
  /\ UNCHANGED <<inputPriority, reminderText, outbox>>

\* handleSendReminder of the task view, up to the request; the text is that of the
\* panel, which follows the task input until it is edited
handleSendReminder ==
  /\ Len(outbox) < MaxReminders
  /\ LET textToSend == trim(reminderText)
         hasAnyAction == \E key \in DOMAIN reminderOptions : reminderOptions[key]
         needsApi == reminderOptions.sendToApi \/ reminderOptions.createTaskFromResponse
     IN IF textToSend = << >> \/ ~hasAnyAction \/ ~needsApi
          THEN UNCHANGED outbox
          ELSE outbox' = Append(outbox, sendReminder(textToSend, inputPriority, "TODO"))
  /\ UNCHANGED <<inputPriority, reminderText, reminderOptions>>

\* handleSendReminder of the medicine panel: no priority
medicineSendReminder ==
  /\ Len(outbox) < MaxReminders
  /\ outbox' = Append(outbox, sendReminder(<<"m">>, NoPriority, "MEDICINE"))
  /\ UNCHANGED <<inputPriority, reminderText, reminderOptions>>

ReminderFresh ==
  /\ inputPriority = "P4"
  /\ reminderText = << >>
  /\ reminderOptions = [sendToApi |-> TRUE, openWhatsApp |-> FALSE,
                        createTaskFromResponse |-> FALSE, localNotification |-> FALSE]
  /\ outbox = << >>

\* ================================================ components/MedicinePanel.tsx
VARIABLES
  panelMedicines,  \* the medicines prop of the panel
  panelToday,      \* getTodayStart(): the start of the current local day
  manualBase,      \* per medicine: remaining and lastUpdated as the last manual edit set them
  panelOps         \* manual operations made so far

mvars == <<panelMedicines, panelToday, manualBase, panelOps>>

MAX_REMAINING == 365

clampRemaining_noUpper(value) == Max(0, value)

clampRemaining(value) == Max(0, Min(MAX_REMAINING, value))

\* getRemainingForMedicine: the same computation as getRemainingDays
getRemainingForMedicine(med, todayStart) ==
  LET lastUpdated == IF med.lastUpdated = Undefined THEN todayStart ELSE med.lastUpdated
      remaining == IF med.remaining = Undefined THEN DEFAULT_REMAINING_DAYS ELSE med.remaining
      daysPassed == Max(0, (todayStart - lastUpdated) \div MS_DAY)
  IN Max(0, remaining - daysPassed)

\* a normalization that decrements but leaves lastUpdated where it was
normalizeMedicine_keepsLastUpdated(med, todayStart) ==
  [med EXCEPT !.remaining = getRemainingForMedicine(med, todayStart)]

\* the record the decay effect and loadData write for a medicine
normalizeMedicine(med, todayStart) ==
  [med EXCEPT !.remaining = getRemainingForMedicine(med, todayStart),
              !.lastUpdated = todayStart]

\* the condition under which the decay effect and loadData write the record
needsNormalizing(med, todayStart) ==
  \/ getRemainingForMedicine(med, todayStart) # med.remaining
  \/ med.lastUpdated # todayStart

\* the number typed into the "days left" field, as onChange stores it
RemainingTyped == {0, 2, 5, 10, 400}

ExactTyped == {-1, 400}

SetBase(i, med) == [manualBase EXCEPT ![i] = [remaining |-> med.remaining,
                                              lastUpdated |-> med.lastUpdated]]

\* the run may take a further manual operation or midnight
PanelCanStep == panelOps + panelToday \div MS_DAY < MaxMedSteps

addMedicine ==
  /\ PanelCanStep
  /\ \E typed \in RemainingTyped, calendarAlarm \in BOOLEAN :
       LET remainingInput == clampRemaining(typed)
           newMed == [id |-> panelOps + 1, name |-> "Med", taken |-> FALSE,
                      remaining |-> clampRemaining(IF remainingInput = 0
                                                     THEN DEFAULT_REMAINING_DAYS
                                                     ELSE remainingInput),
                      lastUpdated |-> panelToday,
                      alarmEnabled |-> calendarAlarm]
       IN /\ panelMedicines' = Append(panelMedicines, newMed)
          /\ manualBase' = Append(manualBase, [remaining |-> newMed.remaining,
                                               lastUpdated |-> newMed.lastUpdated])
  /\ panelOps' = panelOps + 1
  /\ UNCHANGED panelToday

toggleTaken ==
  /\ PanelCanStep
  /\ \E i \in 1..Len(panelMedicines) :
       panelMedicines' = [panelMedicines EXCEPT ![i].taken = ~panelMedicines[i].taken]
  /\ panelOps' = panelOps + 1
  /\ UNCHANGED <<panelToday, manualBase>>

deleteMedicine ==
  /\ \E i \in 1..Len(panelMedicines) :
       /\ panelMedicines' = SelectSeq(panelMedicines, LAMBDA m : m.id # panelMedicines[i].id)
       /\ manualBase' = [j \in 1..(Len(manualBase) - 1) |->
                           IF j < i THEN manualBase[j] ELSE manualBase[j + 1]]
  /\ UNCHANGED <<panelToday, panelOps>>

updateRemaining ==
  /\ PanelCanStep
  /\ \E i \in 1..Len(panelMedicines), delta \in {-1, 1} :
       LET med == panelMedicines[i]
           current == getRemainingForMedicine(med, panelToday)
           updated == [med EXCEPT !.remaining = clampRemaining(current + delta),
                                 !.lastUpdated = panelToday]
       IN /\ panelMedicines' = [panelMedicines EXCEPT ![i] = updated]
          /\ manualBase' = SetBase(i, updated)
  /\ panelOps' = panelOps + 1
  /\ UNCHANGED panelToday

setRemainingExact ==
  /\ PanelCanStep
  /\ \E i \in 1..Len(panelMedicines), value \in ExactTyped :
       LET updated == [panelMedicines[i] EXCEPT !.remaining = clampRemaining(value),
                                                !.lastUpdated = panelToday]
       IN /\ panelMedicines' = [panelMedicines EXCEPT ![i] = updated]
          /\ manualBase' = SetBase(i, updated)
  /\ panelOps' = panelOps + 1
  /\ UNCHANGED panelToday

toggleCalendarAlarm ==
  /\ PanelCanStep
  /\ \E i \in 1..Len(panelMedicines) :
       panelMedicines' = [panelMedicines EXCEPT ![i].alarmEnabled = ~panelMedicines[i].alarmEnabled]
  /\ panelOps' = panelOps + 1
  /\ UNCHANGED <<panelToday, manualBase>>

\* the decay effect of the panel: every medicine that needs it is rewritten
decayEffect ==
  /\ \E i \in 1..Len(panelMedicines) : needsNormalizing(panelMedicines[i], panelToday)
  /\ panelMedicines' = [i \in 1..Len(panelMedicines) |->
                          IF needsNormalizing(panelMedicines[i], panelToday)
                            THEN normalizeMedicine(panelMedicines[i], panelToday)
                            ELSE panelMedicines[i]]
  /\ UNCHANGED <<panelToday, manualBase, panelOps>>

\* loadData of App.tsx: every loaded medicine is normalized for today
loadMedicines ==
  /\ panelMedicines # << >>
  /\ panelMedicines' = [i \in 1..Len(panelMedicines) |->
                          normalizeMedicine(panelMedicines[i], panelToday)]
  /\ UNCHANGED <<panelToday, manualBase, panelOps>>

\* midnight passes
DayPasses ==
  /\ PanelCanStep
  /\ panelToday' = panelToday + MS_DAY
  /\ UNCHANGED <<panelMedicines, manualBase, panelOps>>

MedFresh ==
  /\ panelMedicines = << >>
  /\ panelToday = 0
  /\ manualBase = << >>
  /\ panelOps = 0

pvars == <<mvars, cvars, tvars, svars, rvars, overlap>>

\* events wait for the awaited writes
NoOverlap == overlap = 0

PureFresh == MedFresh /\ CalFresh /\ TopFresh /\ SyncFresh /\ ReminderFresh /\ NoOverlap

\* ========================================================= services/db.ts
VARIABLES
  dbPromise,       \* "none", or the state of the openDB promise: "opening", "open", "null"
  dbFailed,        \* the sticky failure flag
  fallbackWarned,  \* warnFallbackOnce has warned
  warnings,        \* console.warn calls made by warnFallbackOnce
  primary,         \* the IndexedDB object stores: collection -> set of records
  webStorage,      \* localStorage and memoryFallback: [ls, mem], each collection -> blob
  lsMode,          \* localStorage works ("ok"), throws on every access ("blocked"),
                   \* or throws on setItem only, as over quota ("full")
  calls,           \* storage calls in flight, oldest first
  lastCall,        \* the storage call that completed last, with what it returned
  started,         \* storage calls started so far
  failures,        \* errors the primary store has raised so far
  reference        \* what a keyed record store holds after the completed calls

dvars == <<dbPromise, dbFailed, fallbackWarned, warnings, primary, webStorage, lsMode,
           calls, lastCall, started, failures, reference>>

Collections == {"todos", "deleted_todos", "ai_planner_results", "attachments"}

\* a stored value: absent (getItem gives null) or a JSON text
NoBlob == [has |-> FALSE, text |-> << >>]

\* JSON.stringify of a record: its defined fields, in order
stringifyRecord(r) ==
  (IF r.id = Undefined THEN << >> ELSE << <<"id", r.id>> >>) \o << <<"v", r.v>> >>

\* JSON.parse of a record text: a missing field reads as undefined
parseRecord(t) ==
  [id |-> IF \E i \in 1..Len(t) : t[i][1] = "id"
            THEN t[CHOOSE i \in 1..Len(t) : t[i][1] = "id"][2] ELSE Undefined,
   v |-> t[CHOOSE i \in 1..Len(t) : t[i][1] = "v"][2]]

\* JSON.stringify / JSON.parse of a Record<string, value>: entries in insertion order
stringifyStore(data) ==
  [i \in 1..Len(data) |-> <<data[i].key, stringifyRecord(data[i].value)>>]

parseStore(text) ==
  [i \in 1..Len(text) |-> [key |-> text[i][1], value |-> parseRecord(text[i][2])]]

safeGetItem(ws, mode, c) == IF mode = "blocked" THEN ws.mem[c] ELSE ws.ls[c]

safeSetItem(ws, mode, c, blob) ==
  IF mode = "ok" THEN [ws EXCEPT !.ls[c] = blob] ELSE [ws EXCEPT !.mem[c] = blob]

safeRemoveItem(ws, mode, c) ==
  IF mode = "blocked" THEN [ws EXCEPT !.mem[c] = NoBlob] ELSE [ws EXCEPT !.ls[c] = NoBlob]

readStore(ws, mode, c) ==
  LET raw == safeGetItem(ws, mode, c) IN
  IF ~raw.has THEN << >> ELSE parseStore(raw.text)

writeStore(ws, mode, c, data) ==
  safeSetItem(ws, mode, c, [has |-> TRUE, text |-> stringifyStore(data)])

\* data[key] = value: replace in place, or add as the last own property
objSet(data, key, value) ==
  IF \E i \in 1..Len(data) : data[i].key = key
    THEN [i \in 1..Len(data) |-> IF data[i].key = key
                                   THEN [key |-> key, value |-> value] ELSE data[i]]
    ELSE Append(data, [key |-> key, value |-> value])

\* delete data[key]
objDelete(data, key) == SelectSeq(data, LAMBDA e : e.key # key)

objHas(data, key) == \E i \in 1..Len(data) : data[i].key = key

\* Object.values
objValues(data) == [i \in 1..Len(data) |-> data[i].value]

fallbackGetAll(ws, mode, c) == objValues(readStore(ws, mode, c))

\* the storage after fallbackPutItem and the key it returns
fallbackPutItem(ws, mode, c, item, uuid) ==
  LET data == readStore(ws, mode, c)
      key == IF item.id = Undefined THEN uuid ELSE item.id
  IN [ws |-> writeStore(ws, mode, c, objSet(data, key, [item EXCEPT !.id = key])),
      key |-> key]

\* fallbackDeleteItem whose else branch forgets to write the data back
fallbackDeleteItem_dropsStore(ws, mode, c, id) ==
  LET data == readStore(ws, mode, c) IN
  IF objHas(data, id)
    THEN writeStore(ws, mode, c, objDelete(data, id))
    ELSE safeRemoveItem(ws, mode, c)

fallbackDeleteItem(ws, mode, c, id) ==
  LET data == readStore(ws, mode, c) IN
  IF objHas(data, id)
    THEN writeStore(ws, mode, c, objDelete(data, id))
    ELSE writeStore(safeRemoveItem(ws, mode, c), mode, c, data)

\* the fallback branch of softDeleteTodo
fallbackSoftDelete(ws, mode, todo) ==
  LET todosData == readStore(ws, mode, "todos")
      deleted == readStore(ws, mode, "deleted_todos")
      ws1 == IF objHas(todosData, todo.id)
               THEN writeStore(ws, mode, "todos", objDelete(todosData, todo.id))
               ELSE ws
  IN writeStore(ws1, mode, "deleted_todos", objSet(deleted, todo.id, todo))

\* crypto.randomUUID() of the n-th storage call: apart from every given id
uuidOf(n) == 100 + n

\* db.getAll of an object store: the records in key order
RECURSIVE SortedById(_)
SortedById(S) ==
  IF S = {} THEN << >>
  ELSE LET r == CHOOSE x \in S : \A y \in S : x.id <= y.id
       IN <<r>> \o SortedById(S \ {r})

\* db.put / db.delete of an object store with keyPath id
primaryPut(store, item) == {r \in store : r.id # item.id} \cup {item}

primaryDelete(store, id) == {r \in store : r.id # id}

\* ------------------------------------------------------------ storage calls
StoreOps == {"getAll", "putItem", "deleteItem", "softDeleteTodo", "saveAIResult"}

AttachmentOps == {"putAttachmentBlob", "getAttachmentBlob", "deleteAttachmentBlob"}

NoRecord == [id |-> Undefined, v |-> ""]

NoCall == [op |-> "none", c |-> "todos", item |-> NoRecord, result |-> << >>,
           key |-> Undefined, served |-> "none", late |-> FALSE]

\* what the fallback branch of a call does: the storage after it, what it returns
fallbackRun(ws, mode, call) ==
  CASE call.op = "getAll" ->
         [ws |-> ws, result |-> fallbackGetAll(ws, mode, call.c), key |-> Undefined]
    [] call.op \in {"putItem", "saveAIResult"} ->
         LET r == fallbackPutItem(ws, mode, call.c, call.item, uuidOf(call.n))
         IN [ws |-> r.ws, result |-> << >>, key |-> r.key]
    [] call.op = "deleteItem" ->
         [ws |-> fallbackDeleteItem(ws, mode, call.c, call.item.id),
          result |-> << >>, key |-> Undefined]
    [] call.op = "softDeleteTodo" ->
         [ws |-> fallbackSoftDelete(ws, mode, call.item), result |-> << >>, key |-> Undefined]

\* what the primary branch of a call does: the object stores after it, what it returns
primaryRun(stores, call) ==
  CASE call.op = "getAll" ->
         [stores |-> stores, result |-> SortedById(stores[call.c]), key |-> Undefined]
    [] call.op \in {"putItem", "saveAIResult"} ->
         [stores |-> [stores EXCEPT ![call.c] = primaryPut(@, call.item)],
          result |-> << >>, key |-> call.item.id]
    [] call.op = "deleteItem" ->
         [stores |-> [stores EXCEPT ![call.c] = primaryDelete(@, call.item.id)],
          result |-> << >>, key |-> Undefined]
    [] call.op = "softDeleteTodo" ->
         [stores |-> [stores EXCEPT !["todos"] = primaryDelete(@, call.item.id),
                                    !["deleted_todos"] = primaryPut(@, call.item)],
          result |-> << >>, key |-> Undefined]
    [] call.op = "putAttachmentBlob" ->
         [stores |-> [stores EXCEPT !["attachments"] = primaryPut(@, call.item)],
          result |-> << >>, key |-> Undefined]
    [] call.op = "getAttachmentBlob" ->
         [stores |-> stores,
          result |-> SortedById({r \in stores["attachments"] : r.id = call.item.id}),
          key |-> Undefined]
    [] call.op = "deleteAttachmentBlob" ->
         [stores |-> [stores EXCEPT !["attachments"] = primaryDelete(@, call.item.id)],
          result |-> << >>, key |-> Undefined]

\* a keyed record store: records in the order their ids were first stored
refPut(recs, item) ==
  IF \E i \in 1..Len(recs) : recs[i].id = item.id
    THEN [i \in 1..Len(recs) |-> IF recs[i].id = item.id THEN item ELSE recs[i]]
    ELSE Append(recs, item)

refDelete(recs, id) == SelectSeq(recs, LAMBDA r : r.id # id)

referenceAfter(ref, call, key) ==
  CASE call.op = "getAll" -> ref
    [] call.op \in {"putItem", "saveAIResult"} ->
         [ref EXCEPT ![call.c] = refPut(@, [call.item EXCEPT !.id = key])]
    [] call.op = "deleteItem" -> [ref EXCEPT ![call.c] = refDelete(@, call.item.id)]
    [] call.op = "softDeleteTodo" ->
         [ref EXCEPT !["todos"] = refDelete(@, call.item.id),
                     !["deleted_todos"] = refPut(@, call.item)]
    [] call.op = "putAttachmentBlob" -> [ref EXCEPT !["attachments"] = refPut(@, call.item)]
    [] call.op = "getAttachmentBlob" -> ref
    [] call.op = "deleteAttachmentBlob" ->
         [ref EXCEPT !["attachments"] = refDelete(@, call.item.id)]

Completed(call, result, key, served) ==
  [op |-> call.op, c |-> call.c, item |-> call.item, result |-> result,
   key |-> key, served |-> served, late |-> call.late]

\* an attachment call that got no database: throw new Error(ATTACHMENT_DB_UNAVAILABLE)
attachmentUnavailable_degrades(ws, mode, call) ==
  IF call.op = "putAttachmentBlob"
    THEN [ws |-> fallbackPutItem(ws, mode, "attachments", call.item, uuidOf(call.n)).ws,
          served |-> "fallback"]
    ELSE [ws |-> ws, served |-> "fallback"]

attachmentUnavailable(ws, mode, call) == [ws |-> ws, served |-> "error"]

\* if (!db): the branch a call takes when initDB gave null
withoutDb(ws, mode, ref, call) ==
  IF call.op \in AttachmentOps
    THEN LET a == attachmentUnavailable(ws, mode, call)
         IN [ws |-> a.ws, ref |-> ref,
             last |-> Completed(call, << >>, Undefined, a.served)]
    ELSE LET r == fallbackRun(ws, mode, call)
         IN [ws |-> r.ws, ref |-> referenceAfter(ref, call, r.key),
             last |-> Completed(call, r.result, r.key, "fallback")]

\* the calls awaiting a database that resolved to null take that branch in turn
RECURSIVE DrainFallback(_, _, _)
DrainFallback(cs, mode, acc) ==
  IF cs = << >> THEN acc
  ELSE DrainFallback(Tail(cs), mode, withoutDb(acc.ws, mode, acc.ref, Head(cs)))

warnFallbackOnce ==
  /\ fallbackWarned' = TRUE
  /\ warnings' = IF fallbackWarned THEN warnings ELSE warnings + 1

\* const db = await initDB(): a call made after the flag is set gets null at once and
\* takes its branch for no database; otherwise it awaits the (possibly just created) dbPromise
\* and, where that has resolved, issues its request to the database
Begin(op, c, item) ==
  LET call == [op |-> op, c |-> c, item |-> item, pc |-> "init",
               n |-> started + 1, late |-> failures > 0]
  IN /\ started < MaxCalls
     /\ started' = started + 1
     /\ IF dbFailed
          THEN LET r == withoutDb(webStorage, lsMode, reference, call)
               IN /\ webStorage' = r.ws
                  /\ reference' = r.ref
                  /\ lastCall' = r.last
                  /\ UNCHANGED <<dbPromise, calls>>
          ELSE /\ dbPromise' = IF dbPromise = "none" THEN "opening" ELSE dbPromise
               /\ calls' = Append(calls, [call EXCEPT !.pc = IF dbPromise = "open"
                                                               THEN "op" ELSE "init"])
               /\ UNCHANGED <<webStorage, reference, lastCall>>
     /\ UNCHANGED <<dbFailed, fallbackWarned, warnings, primary, lsMode, failures>>

GenericStores == {"todos", "deleted_todos"}

Items == {[id |-> 1, v |-> "x"], [id |-> 1, v |-> "y"], [id |-> Undefined, v |-> "x"]}

ItemIds == {1, 2}

getAll == \E c \in GenericStores : Begin("getAll", c, NoRecord)

putItem == \E c \in GenericStores, item \in Items : Begin("putItem", c, item)

deleteItem ==
  \E c \in GenericStores, id \in ItemIds : Begin("deleteItem", c, [id |-> id, v |-> ""])

softDeleteTodo == Begin("softDeleteTodo", "todos", [id |-> 1, v |-> "x"])

saveAIResult ==
  Begin("saveAIResult", "ai_planner_results", [id |-> uuidOf(started + 1), v |-> "q"])

AttachmentIds == {1}

putAttachmentBlob ==
  \E id \in AttachmentIds : Begin("putAttachmentBlob", "attachments", [id |-> id, v |-> "blob"])

getAttachmentBlob ==
  \E id \in AttachmentIds : Begin("getAttachmentBlob", "attachments", [id |-> id, v |-> ""])

deleteAttachmentBlob ==
  \E id \in AttachmentIds : Begin("deleteAttachmentBlob", "attachments", [id |-> id, v |-> ""])

\* openDB resolves: every call awaiting it issues its request
OpenSucceeds ==
  /\ dbPromise = "opening"
  /\ dbPromise' = "open"
  /\ calls' = [i \in 1..Len(calls) |-> [calls[i] EXCEPT !.pc = "op"]]
  /\ UNCHANGED <<dbFailed, fallbackWarned, warnings, primary, webStorage, lsMode,
                 lastCall, started, failures, reference>>

\* openDB rejects: the catch of initDB sets the flag and warns, dbPromise resolves to
\* null and every call awaiting it takes its fallback branch
OpenFails ==
  /\ dbPromise = "opening"
  /\ dbPromise' = "null"
  /\ dbFailed' = TRUE
  /\ warnFallbackOnce
  /\ failures' = failures + 1
  /\ LET r == DrainFallback(calls, lsMode,
                            [ws |-> webStorage, ref |-> reference, last |-> lastCall])
     IN /\ webStorage' = r.ws
        /\ reference' = r.ref
        /\ lastCall' = r.last
  /\ calls' = << >>
  /\ UNCHANGED <<primary, lsMode, started>>

\* a record without id has no key for the keyPath: db.put rejects
Storable(call) == ~(call.op = "putItem" /\ call.item.id = Undefined)

\* the oldest request (for softDeleteTodo: the transaction) completes
PrimarySucceeds ==
  /\ calls # << >>
  /\ Head(calls).pc = "op"
  /\ Storable(Head(calls))
  /\ LET r == primaryRun(primary, Head(calls))
     IN /\ primary' = r.stores
        /\ reference' = referenceAfter(reference, Head(calls), r.key)
        /\ lastCall' = Completed(Head(calls), r.result, r.key, "primary")
  /\ calls' = Tail(calls)
  /\ UNCHANGED <<dbPromise, dbFailed, fallbackWarned, warnings, webStorage, lsMode,
                 started, failures>>

\* an awaited request of the oldest call rejects: its catch sets the flag, warns and
\* runs the fallback branch
PrimaryFails ==
  /\ calls # << >>
  /\ Head(calls).pc = "op"
  /\ Head(calls).op \in StoreOps
  /\ dbFailed' = TRUE
  /\ warnFallbackOnce
  /\ failures' = failures + 1
  /\ LET r == fallbackRun(webStorage, lsMode, Head(calls))
     IN /\ webStorage' = r.ws
        /\ reference' = referenceAfter(reference, Head(calls), r.key)
        /\ lastCall' = Completed(Head(calls), r.result, r.key, "fallback")
  /\ calls' = Tail(calls)
  /\ UNCHANGED <<dbPromise, primary, lsMode, started>>

\* both requests of softDeleteTodo succeeded and the function returned tx.done: the
\* commit fails, the transaction aborts and the rejection goes to the caller
CommitFails ==
  /\ calls # << >>
  /\ Head(calls).pc = "op"
  /\ Head(calls).op = "softDeleteTodo"
  /\ failures' = failures + 1
  /\ lastCall' = Completed(Head(calls), << >>, Undefined, "error")
  /\ calls' = Tail(calls)
  /\ UNCHANGED <<dbPromise, dbFailed, fallbackWarned, warnings, primary, webStorage,
                 lsMode, started, reference>>

\* the awaited request of an attachment call rejects: no catch, the rejection goes to
\* the caller
AttachmentFails ==
  /\ calls # << >>
  /\ Head(calls).pc = "op"
  /\ Head(calls).op \in AttachmentOps
  /\ lastCall' = Completed(Head(calls), << >>, Undefined, "error")
  /\ calls' = Tail(calls)
  /\ UNCHANGED <<dbPromise, dbFailed, fallbackWarned, warnings, primary, webStorage,
                 lsMode, started, failures, reference>>

EmptyStores == [c \in Collections |-> NoBlob]

DbFresh ==
  /\ dbPromise = "none"
  /\ dbFailed = FALSE
  /\ fallbackWarned = FALSE
  /\ warnings = 0
  /\ primary = [c \in Collections |-> {}]
  /\ webStorage = [ls |-> EmptyStores, mem |-> EmptyStores]
  /\ calls = << >>
  /\ lastCall = NoCall
  /\ started = 0
  /\ failures = 0
  /\ reference = [c \in Collections |-> << >>]

LsModes == {"ok", "blocked", "full"}

NextDB ==
  \/ getAll /\ UNCHANGED <<nvars, pvars>>
  \/ putItem /\ UNCHANGED <<nvars, pvars>>
  \/ deleteItem /\ UNCHANGED <<nvars, pvars>>
  \/ softDeleteTodo /\ UNCHANGED <<nvars, pvars>>
  \/ saveAIResult /\ UNCHANGED <<nvars, pvars>>
  \/ OpenSucceeds /\ UNCHANGED <<nvars, pvars>>
  \/ OpenFails /\ UNCHANGED <<nvars, pvars>>
  \/ PrimarySucceeds /\ UNCHANGED <<nvars, pvars>>
  \/ PrimaryFails /\ UNCHANGED <<nvars, pvars>>
  \/ CommitFails /\ UNCHANGED <<nvars, pvars>>
  \/ putAttachmentBlob /\ UNCHANGED <<nvars, pvars>>
  \/ getAttachmentBlob /\ UNCHANGED <<nvars, pvars>>
  \/ deleteAttachmentBlob /\ UNCHANGED <<nvars, pvars>>
  \/ AttachmentFails /\ UNCHANGED <<nvars, pvars>>

\* ------------------------------------------------------------ specification
AppFresh ==
  /\ nowTs = InitialNow
  /\ todos = << >>
  /\ medicines = << >>
  /\ expenses = << >>
  /\ notifications = << >>
  /\ rendered = << >>
  /\ phase = "idle"
  /\ sweepDue = FALSE
  /\ setCalled = FALSE
  /\ notifStore = {}
  /\ pending = << >>
  /\ created = 0
  /\ readSince = {}

vars == <<nvars, dvars, pvars>>

\* the notification engine of App.tsx, over a working store
DbIdle == DbFresh /\ lsMode = "ok"

Init == AppFresh /\ DbIdle /\ PureFresh

Next ==
  \/ addTodo /\ TrackRead /\ UNCHANGED <<dvars, pvars>>
  \/ handleUpdateTodo /\ TrackRead /\ UNCHANGED <<dvars, pvars>>
  \/ deleteTodo /\ TrackRead /\ UNCHANGED <<dvars, pvars>>
  \/ handleAddMedicine /\ TrackRead /\ UNCHANGED <<dvars, pvars>>
  \/ handleUpdateMedicine /\ TrackRead /\ UNCHANGED <<dvars, pvars>>
  \/ handleDeleteMedicine /\ TrackRead /\ UNCHANGED <<dvars, pvars>>
  \/ handleAddExpense /\ TrackRead /\ UNCHANGED <<dvars, pvars>>
  \/ handleUpdateExpense /\ TrackRead /\ UNCHANGED <<dvars, pvars>>
  \/ handleDeleteExpense /\ TrackRead /\ UNCHANGED <<dvars, pvars>>
  \/ ClockTick /\ TrackRead /\ UNCHANGED <<dvars, pvars>>
  \/ toggleNotificationRead /\ TrackRead /\ UNCHANGED <<dvars, pvars>>
  \/ createLocalNotification /\ TrackRead /\ UNCHANGED <<dvars, pvars>>
  \/ ReconcileEffect /\ TrackRead /\ UNCHANGED <<dvars, pvars>>
  \/ SweepEffect /\ TrackRead /\ UNCHANGED <<dvars, pvars>>
  \/ StoreStep /\ TrackRead /\ UNCHANGED <<dvars, pvars>>

Spec == Init /\ [][Next]_vars

\* the notification engine when events do not wait for the awaited writes: a
\* new pass starts while up to MaxOverlap earlier write sequences are unfinished
InitOverlap ==
  /\ AppFresh /\ DbIdle
  /\ MedFresh /\ CalFresh /\ TopFresh /\ SyncFresh /\ ReminderFresh
  /\ overlap = MaxOverlap

SpecOverlap == InitOverlap /\ [][Next]_vars

\* the storage layer of services/db.ts, in each localStorage environment
InitDB == AppFresh /\ DbFresh /\ lsMode \in LsModes /\ PureFresh

SpecDB == InitDB /\ [][NextDB]_vars

\* the medicine panel and the normalization of loadData
InitMed == AppFresh /\ DbIdle /\ PureFresh

NextMed ==
  \/ addMedicine /\ UNCHANGED <<nvars, dvars, cvars, tvars, svars, rvars, overlap>>
  \/ toggleTaken /\ UNCHANGED <<nvars, dvars, cvars, tvars, svars, rvars, overlap>>
  \/ deleteMedicine /\ UNCHANGED <<nvars, dvars, cvars, tvars, svars, rvars, overlap>>
  \/ updateRemaining /\ UNCHANGED <<nvars, dvars, cvars, tvars, svars, rvars, overlap>>
  \/ setRemainingExact /\ UNCHANGED <<nvars, dvars, cvars, tvars, svars, rvars, overlap>>
  \/ toggleCalendarAlarm /\ UNCHANGED <<nvars, dvars, cvars, tvars, svars, rvars, overlap>>
  \/ decayEffect /\ UNCHANGED <<nvars, dvars, cvars, tvars, svars, rvars, overlap>>
  \/ loadMedicines /\ UNCHANGED <<nvars, dvars, cvars, tvars, svars, rvars, overlap>>
  \/ DayPasses /\ UNCHANGED <<nvars, dvars, cvars, tvars, svars, rvars, overlap>>

SpecMed == InitMed /\ [][NextMed]_vars

\* isExpenseDueOnDay asked day after day about one expense
InitCal == AppFresh /\ DbIdle /\ MedFresh /\ CalAsked /\ TopFresh /\ SyncFresh /\ ReminderFresh
             /\ NoOverlap

NextCal == askNextDay /\ UNCHANGED <<nvars, dvars, mvars, tvars, svars, rvars, overlap>>

SpecCal == InitCal /\ [][NextCal]_vars

\* buildDailyTop5Snapshot over a growing task list
InitTop == AppFresh /\ DbIdle /\ PureFresh

NextTop ==
  \/ addTopTodo /\ UNCHANGED <<nvars, dvars, mvars, cvars, svars, rvars, overlap>>
  \/ topDayRolls /\ UNCHANGED <<nvars, dvars, mvars, cvars, svars, rvars, overlap>>

SpecTop == InitTop /\ [][NextTop]_vars

\* the daily top sync effect
InitSync == AppFresh /\ DbIdle /\ MedFresh /\ CalFresh /\ TopFresh /\ SyncMounted /\ ReminderFresh
              /\ NoOverlap

NextSync ==
  \/ SyncClockTick /\ UNCHANGED <<nvars, dvars, mvars, cvars, tvars, rvars, overlap>>
  \/ handleFocus /\ UNCHANGED <<nvars, dvars, mvars, cvars, tvars, rvars, overlap>>
  \/ TaskEdit /\ UNCHANGED <<nvars, dvars, mvars, cvars, tvars, rvars, overlap>>
  \/ TimerFires /\ UNCHANGED <<nvars, dvars, mvars, cvars, tvars, rvars, overlap>>
  \/ CallReturns /\ UNCHANGED <<nvars, dvars, mvars, cvars, tvars, rvars, overlap>>
  \/ SyncTimePasses /\ UNCHANGED <<nvars, dvars, mvars, cvars, tvars, rvars, overlap>>

SpecSync == InitSync /\ [][NextSync]_vars

\* the same with time passing, the interval and the timeouts firing, and every call
\* getting its response
SpecSyncLive ==
  /\ SpecSync
  /\ WF_vars(SyncTimePasses /\ UNCHANGED <<nvars, dvars, mvars, cvars, tvars, rvars, overlap>>)
  /\ WF_vars(SyncClockTick /\ UNCHANGED <<nvars, dvars, mvars, cvars, tvars, rvars, overlap>>)
  /\ WF_vars(TimerFires /\ UNCHANGED <<nvars, dvars, mvars, cvars, tvars, rvars, overlap>>)
  /\ WF_vars(CallReturns /\ UNCHANGED <<nvars, dvars, mvars, cvars, tvars, rvars, overlap>>)

\* the reminders sent from the task view and the medicine panel
InitReminder == AppFresh /\ DbIdle /\ PureFresh

NextReminder ==
  \/ setInputPriority /\ UNCHANGED <<nvars, dvars, mvars, cvars, tvars, svars, overlap>>
  \/ setReminderText /\ UNCHANGED <<nvars, dvars, mvars, cvars, tvars, svars, overlap>>
  \/ toggleReminderOption /\ UNCHANGED <<nvars, dvars, mvars, cvars, tvars, svars, overlap>>
  \/ handleSendReminder /\ UNCHANGED <<nvars, dvars, mvars, cvars, tvars, svars, overlap>>
  \/ medicineSendReminder /\ UNCHANGED <<nvars, dvars, mvars, cvars, tvars, svars, overlap>>

SpecReminder == InitReminder /\ [][NextReminder]_vars

TypeOK == phase \in {"idle", "rec", "sweep"}

\* ======================================================== checked properties
\* ids of the desired set for the current tasks, medicines, expenses and window
DesiredIds ==
  Ids(desiredBases(todos, medicines, expenses, notificationWindowStartTs, nowTs))

GeneratedIds(feed) == {feed[i].id : i \in {k \in 1..Len(feed) : feed[k].source # "reminder"}}

Reminders(feed) == SelectSeq(feed, LAMBDA n : n.source = "reminder")

\* every write some issued sequence still holds
PendingOps == UNION {Range(pending[j]) : j \in 1..Len(pending)}

\* the writes a step has newly issued (the sequences it appended)
IssuedOps ==
  UNION {Range(pending'[j]) : j \in (Len(pending) + 1)..Len(pending')}

IsPast(item) == getDayStartTs(item.scheduledAt) < getDayStartTs(nowTs)

\* C1: a reconciliation pass leaves read and createdAt of every notification
\* of the feed whose id is in the desired set unchanged, whatever else changed
\* and also when the pass refreshes the entry.
C1_ReadStatePreserved ==
  [][ReconcileEffect =>
       \A i \in 1..Len(notifications) :
         notifications[i].id \in DesiredIds =>
           \E k \in 1..Len(notifications') :
             /\ notifications'[k].id = notifications[i].id
             /\ notifications'[k].read = notifications[i].read
             /\ notifications'[k].createdAt = notifications[i].createdAt]_vars

\* a pass has written back a refreshed entry that the user had marked read
C1_Witness ==
  \E o \in PendingOps : o.by = "rec" /\ o.op = "put" /\ o.item[1].read

\* the task of a todo notification no longer justifies it: deleted, completed
\* or without a due date
TaskGone(id) ==
  ~\E i \in 1..Len(todos) :
      todos[i].id = id /\ ~todos[i].completed /\ todos[i].dueDate # Undefined

\* the alarm of a medicine notification's medicine is off, or the medicine is gone
AlarmOff(id) ==
  ~\E i \in 1..Len(medicines) : medicines[i].id = id /\ medicines[i].alarmEnabled

\* C2: a pass removes from the feed every todo notification whose task was
\* completed, deleted or lost its due date and every medicine notification
\* whose alarm was disabled, and issues a delete of its id to the store.
C2_PrunesStale ==
  [][ReconcileEffect =>
       \A i \in 1..Len(notifications) :
         LET n == notifications[i] IN
         (\/ n.source = "todo" /\ TaskGone(n.todoId)
          \/ n.source = "medicine" /\ AlarmOff(n.entityId)) =>
           /\ n.id \notin Ids(notifications')
           /\ \E o \in IssuedOps : o.op = "del" /\ o.id = n.id]_vars

\* a pass has issued the delete of the notification of a completed task
C2_Witness ==
  \E o \in PendingOps :
    /\ o.by = "rec" /\ o.op = "del" /\ o.id.src = "todo"
    /\ \E i \in 1..Len(todos) : todos[i].id = o.id.ent /\ todos[i].completed

\* C3: after a pass the ids of the generated notifications of the feed are
\* exactly the ids of the desired set.
C3_FeedMatchesDesired ==
  [][ReconcileEffect => GeneratedIds(notifications') = DesiredIds]_vars

\* a pass had both to insert or refresh and to delete
C3_Witness ==
  \E j \in 1..Len(pending) :
    /\ \E o \in Range(pending[j]) : o.by = "rec" /\ o.op = "put"
    /\ \E o \in Range(pending[j]) : o.by = "rec" /\ o.op = "del"

\* a write of a pass is applied to the store
RecWriteStep ==
  pending # << >> /\ Head(pending[1]).by = "rec" /\ StoreStep

\* C4: a pass leaves the reminders of the feed as they are, issues no write
\* for a reminder id, and its writes leave the reminders of the store as they are.
C4_RemindersUntouched ==
  [][/\ ReconcileEffect =>
          /\ Reminders(notifications') = Reminders(notifications)
          /\ \A o \in IssuedOps : o.id.src # "reminder"
     /\ RecWriteStep =>
          {r \in notifStore' : r.source = "reminder"}
            = {r \in notifStore : r.source = "reminder"}]_vars

\* a pass has issued deletes while a reminder is in the feed and in the store
C4_Witness ==
  /\ \E o \in PendingOps : o.by = "rec" /\ o.op = "del"
  /\ \E r \in notifStore : r.source = "reminder" /\ r \in Range(notifications)

\* the feed matches the desired set: every desired id has an entry with the
\* same message, scheduledAt, source, kind and back-references, and no
\* generated entry is stale
Matches(feed) ==
  /\ \A b \in Range(desiredBases(todos, medicines, expenses,
                                 notificationWindowStartTs, nowTs)) :
       \E n \in Range(feed) :
         /\ n.id = b.id /\ n.message = b.message /\ n.scheduledAt = b.scheduledAt
         /\ n.source = b.source /\ n.kind = b.kind
         /\ n.todoId = b.todoId /\ n.entityId = b.entityId
  /\ GeneratedIds(feed) \subseteq DesiredIds

\* C5: a pass over a matching feed issues no write and does not replace the
\* feed, and the feed any pass leaves matches, so a further pass is a no-op.
C5_IdempotentPass ==
  [][ReconcileEffect =>
       /\ Matches(notifications) =>
            /\ notifications' = notifications
            /\ pending' = pending
            /\ phase' = "idle" \/ (phase' = "sweep" /\ ~setCalled')
       /\ Matches(notifications')]_vars

\* the effects have come to rest on a feed with generated entries
C5_Witness ==
  /\ phase = "idle"
  /\ GeneratedIds(notifications) # {}
  /\ Matches(notifications)

\* C6: the sweep removes from the feed exactly the read entries of an earlier
\* day, and issues the delete of each of them and of nothing that was not
\* read and of an earlier day when the effect was set up.
C6_SweepExact ==
  [][SweepEffect =>
       /\ notifications' = SelectSeq(notifications, LAMBDA n : ~(n.read /\ IsPast(n)))
       /\ \A n \in Range(notifications) :
            (n.read /\ IsPast(n)) => \E o \in IssuedOps : o.op = "del" /\ o.id = n.id
       /\ \A o \in IssuedOps :
            /\ o.op = "del"
            /\ \E n \in Range(rendered) : n.id = o.id /\ n.read /\ IsPast(n)]_vars

\* a sweep has issued a delete while an unread entry stays in the feed
C6_Witness ==
  /\ \E o \in PendingOps : o.by = "sweep"
  /\ \E n \in Range(notifications) : ~n.read


\* the record a generated notification was derived from still stands: the
\* task is open with that due day, the medicine's alarm is on, the expense is
\* material and due on that day; a reminder stands by itself
StillJustified(n) ==
  \/ n.source = "reminder"
  \/ n.source = "todo" /\ \E i \in 1..Len(todos) :
       /\ todos[i].id = n.todoId /\ ~todos[i].completed
       /\ todos[i].dueDate # Undefined /\ getDayStartTs(todos[i].dueDate) = n.scheduledAt
  \/ n.source = "medicine" /\ ~AlarmOff(n.entityId)
  \/ n.source = "expense" /\ \E i \in 1..Len(expenses) :
       /\ expenses[i].id = n.entityId /\ expenses[i].amount >= HIGH_EXPENSE_THRESHOLD
       /\ isExpenseDueOnDay(expenses[i], n.scheduledAt)

\* an effect keeps every unread entry of an earlier day whose source is in S
KeepsUnreadPast(S) ==
  \A n \in Range(notifications) :
    (~n.read /\ IsPast(n) /\ StillJustified(n) /\ n.source \in S) =>
      \E m \in Range(notifications') : m.id = n.id /\ ~m.read

\* C7 as stated: neither the sweep nor a reconciliation pass removes an
\* unread todo, medicine, expense or reminder notification of an earlier day.
C7_UnreadPastRetained_AsStated ==
  [][(SweepEffect \/ ReconcileEffect) =>
       KeepsUnreadPast({"todo", "medicine", "expense", "reminder"})]_vars

\* C7 as amended: the sweep removes no unread notification, and a pass keeps
\* every unread todo and reminder notification of an earlier day; unread
\* medicine and expense notifications of days before the window are pruned.
C7_UnreadPastRetained ==
  [][/\ SweepEffect =>
          \A n \in Range(notifications) : ~n.read => n \in Range(notifications')
     /\ ReconcileEffect => KeepsUnreadPast({"todo", "reminder"})]_vars

\* the effects of a day rollover have run and an unread todo notification
\* created and scheduled on an earlier day is still in the feed
C7_Witness ==
  /\ phase = "idle"
  /\ \E n \in Range(notifications) :
       /\ n.source = "todo" /\ ~n.read /\ IsPast(n)
       /\ n.createdAt < getDayStartTs(nowTs)

\* ------------------------------------------------------------ storage layer
\* C8: sticky fallback. Once the primary store has raised an error, the failure flag
\* is never cleared and no storage call started afterwards is served by the primary
\* store: such a call neither awaits a request to the database nor has completed on it
\* or with an error.
C8_StickyFallback_AsStated ==
  [][ /\ (dbFailed => dbFailed')
      /\ (lastCall'.late => lastCall'.served = "fallback")
      /\ \A i \in 1..Len(calls') : ~calls'[i].late ]_vars

\* C9: fallback round trip. After the primary store failed to open, a getAll returns
\* the records put so far, one per id and the latest for each id, so [X] after
\* putItem(c, X) on an empty collection; and a putItem of a record without an id
\* returns a fresh id under which the record is then read back.
C9_FallbackRoundTrip_AsStated ==
  dbPromise = "null" =>
    /\ (lastCall.op = "getAll" => lastCall.result = reference[lastCall.c])
    /\ (lastCall.op = "putItem" /\ lastCall.item.id = Undefined =>
          /\ lastCall.key # Undefined
          /\ lastCall.key \notin ItemIds
          /\ \E i \in 1..Len(fallbackGetAll(webStorage, lsMode, lastCall.c)) :
               fallbackGetAll(webStorage, lsMode, lastCall.c)[i]
                 = [lastCall.item EXCEPT !.id = lastCall.key])

\* C10: the fallback warning is emitted exactly once when at least one primary-store
\* failure has occurred, and never more than once.
C10_WarnedExactlyOnce_AsStated ==
  /\ warnings <= 1
  /\ (failures > 0 => warnings = 1)

\* C11: an attachment call that gets no database (the flag is set when it starts, or
\* the open it awaits fails) ends with an error, returns nothing, and leaves the
\* fallback storage and the object stores as they were.
C11_AttachmentsFailLoudly ==
  [][ /\ (dbFailed /\ started' # started /\ lastCall'.op \in AttachmentOps) =>
           /\ lastCall'.served = "error"
           /\ lastCall'.result = << >>
           /\ webStorage' = webStorage
           /\ primary' = primary
      /\ (/\ dbPromise = "opening"
          /\ dbPromise' = "null"
          /\ calls # << >>
          /\ \A i \in 1..Len(calls) : calls[i].op \in AttachmentOps) =>
           /\ lastCall'.served = "error"
           /\ lastCall'.op \in AttachmentOps
           /\ webStorage' = webStorage
           /\ primary' = primary ]_vars

\* an attachment call has failed for want of a database while the fallback store
\* held a record
C11_Witness ==
  /\ dbPromise = "null"
  /\ lastCall.op \in AttachmentOps
  /\ lastCall.served = "error"
  /\ \E c \in Collections : fallbackGetAll(webStorage, lsMode, c) # << >>

\* what getAll(c) returns if called now and served without a further failure
Visible(c) ==
  IF dbFailed THEN fallbackGetAll(webStorage, lsMode, c) ELSE SortedById(primary[c])

HasId(recs, id) == \E i \in 1..Len(recs) : recs[i].id = id

\* C12: softDeleteTodo moves a task. Once softDeleteTodo(t) has returned without an
\* error, on the primary store, on the fallback store or through its catch, getAll
\* finds t.id absent from todos and t present in deleted_todos.
C12_SoftDeleteMoves_AsStated ==
  (lastCall.op = "softDeleteTodo" /\ lastCall.served \in {"primary", "fallback"}) =>
    /\ ~HasId(Visible("todos"), lastCall.item.id)
    /\ \E i \in 1..Len(Visible("deleted_todos")) :
         Visible("deleted_todos")[i] = lastCall.item

\* a deleteItem call returns in this step and the store serving reads stays the same
DeleteReturns ==
  \/ dbFailed /\ started' # started /\ lastCall'.op = "deleteItem"
  \/ /\ calls # << >>
     /\ Head(calls).op = "deleteItem"
     /\ Head(calls).pc = "op"
     /\ calls' = Tail(calls)
     /\ dbFailed' = dbFailed

\* C13: deleting a nonexistent key is a no-op. When deleteItem(c, id) returns and id
\* was not among the records of c, the call has raised no error and getAll(c) returns
\* the same records as before, on the primary and on the fallback store.
C13_DeleteAbsentIsNoOp ==
  [][ \A c \in Collections :
        (DeleteReturns /\ lastCall'.c = c /\ ~HasId(Visible(c), lastCall'.item.id)) =>
          /\ lastCall'.op = "deleteItem"
          /\ lastCall'.served \in {"primary", "fallback"}
          /\ Visible(c)' = Visible(c) ]_vars

\* the fallback store has served a deleteItem for an id no record ever had, and the
\* collection holds a record
C13_Witness ==
  /\ lastCall.op = "deleteItem"
  /\ lastCall.item.id = 2
  /\ lastCall.served = "fallback"
  /\ Visible(lastCall.c) # << >>

\* ------------------------------------------------------------ medicines
WholeDays(from, to) == (to - from) \div MS_DAY

\* the record as the last manual edit left it
AtBase(i) == [panelMedicines[i] EXCEPT !.remaining = manualBase[i].remaining,
                                      !.lastUpdated = manualBase[i].lastUpdated]

\* C14: medicine decay never double-decrements. A normalization for day T sets
\* remaining to max(0, remaining - whole days since lastUpdated) and lastUpdated to T,
\* and a second one for the same T changes nothing; since the last manual edit the
\* stored remaining has dropped by min(remaining then, whole days from lastUpdated
\* then to lastUpdated now); and getRemainingDays gives today the value it would give
\* had the record never been normalized since that edit.
C14_NoDoubleDecrement ==
  \A i \in 1..Len(panelMedicines) :
    LET m == panelMedicines[i]
        b == manualBase[i]
        n == normalizeMedicine(m, panelToday)
    IN /\ n.remaining = Max(0, m.remaining - WholeDays(m.lastUpdated, panelToday))
       /\ n.lastUpdated = panelToday
       /\ normalizeMedicine(n, panelToday) = n
       /\ ~needsNormalizing(n, panelToday)
       /\ b.remaining - m.remaining
            = Min(b.remaining, WholeDays(b.lastUpdated, m.lastUpdated))
       /\ getRemainingDays(m, panelToday) = getRemainingDays(AtBase(i), panelToday)
       /\ getRemainingDays(n, panelToday) = getRemainingDays(m, panelToday)

\* a medicine was normalized on a later day than its last manual edit and again on a
\* day after that, and has lost days of supply
C14_Witness ==
  \E i \in 1..Len(panelMedicines) :
    /\ panelMedicines[i].lastUpdated = panelToday
    /\ WholeDays(manualBase[i].lastUpdated, panelToday) >= 2
    /\ panelMedicines[i].remaining < manualBase[i].remaining
    /\ panelMedicines[i].remaining > 0

\* the day starts getRemainingDays is asked about: from the day before the medicine's
\* lastUpdated to three days after it
DayStarts(medicine) == {medicine.lastUpdated + k * MS_DAY : k \in -1..3}

\* getRemainingDays of the medicine at every day start, as pairs <<day start, days>>
RemainingAt(medicine) ==
  {<<t, getRemainingDays(medicine, t)>> : t \in DayStarts(medicine)}

\* C15 as stated: for day starts t1 <= t2, getRemainingDays(med, t2) is at most
\* getRemainingDays(med, t1), with equality exactly when t1 and t2 are the same day.
C15_DecayMonotone_AsStated ==
  \A i \in 1..Len(panelMedicines) :
    LET at == RemainingAt(panelMedicines[i]) IN
    \A r1 \in at, r2 \in at :
      r1[1] <= r2[1] =>
        /\ r2[2] <= r1[2]
        /\ (r2[2] = r1[2] <=> r1[1] = r2[1])

\* C15: for day starts t1 <= t2, getRemainingDays(med, t2) is at most
\* getRemainingDays(med, t1); from lastUpdated on, the two are equal exactly when t1 and
\* t2 are the same day or no days remain at t1.
C15_DecayMonotone ==
  \A i \in 1..Len(panelMedicines) :
    LET at == RemainingAt(panelMedicines[i]) IN
    \A r1 \in at, r2 \in at :
      r1[1] <= r2[1] =>
        /\ r2[2] <= r1[2]
        /\ panelMedicines[i].lastUpdated <= r1[1] =>
             (r2[2] = r1[2] <=> (r1[1] = r2[1] \/ r1[2] = 0))

\* a medicine with supply left whose remaining days are strictly fewer a day later
\* and are used up, and stay so, on two later days
C15_Witness ==
  \E i \in 1..Len(panelMedicines) :
    \E t1 \in DayStarts(panelMedicines[i]), t2 \in DayStarts(panelMedicines[i]) :
    /\ panelMedicines[i].lastUpdated < t1
    /\ t1 < t2
    /\ panelMedicines[i].remaining > 0
    /\ getRemainingDays(panelMedicines[i], panelMedicines[i].lastUpdated + MS_DAY)
         < getRemainingDays(panelMedicines[i], panelMedicines[i].lastUpdated)
    /\ getRemainingDays(panelMedicines[i], t1) = 0
    /\ getRemainingDays(panelMedicines[i], t2) = 0

\* the alerts of a medicine of a kind, by their place in the list
AlertsFor(alerts, id, kind) ==
  {k \in 1..Len(alerts) : alerts[k].medicineId = id /\ alerts[k].kind = kind}

\* C16: buildMedicineAlerts gives every medicine with the alarm on exactly one
\* refill-end alert at todayStart + remainingDays days, and exactly one refill-soon
\* alert 7 days before that if remainingDays >= 7 and none otherwise; it gives a
\* medicine with the alarm off no alert, and no alert of anything else.
C16_AlertsPerMedicine ==
  LET alerts == buildMedicineAlerts(panelMedicines, panelToday) IN
  /\ \A i \in 1..Len(panelMedicines) :
       LET m == panelMedicines[i]
           rd == getRemainingDays(m, panelToday)
           ends == AlertsFor(alerts, m.id, "refill-end")
           soons == AlertsFor(alerts, m.id, "refill-soon")
       IN IF m.alarmEnabled
            THEN /\ Cardinality(ends) = 1
                 /\ \A k \in ends : alerts[k].scheduledAt = panelToday + rd * MS_DAY
                 /\ Cardinality(soons) = (IF rd >= 7 THEN 1 ELSE 0)
                 /\ \A k \in soons : alerts[k].scheduledAt = panelToday + (rd - 7) * MS_DAY
            ELSE ends = {} /\ soons = {}
  /\ \A k \in 1..Len(alerts) :
       /\ alerts[k].kind \in {"refill-end", "refill-soon"}
       /\ \E i \in 1..Len(panelMedicines) : panelMedicines[i].id = alerts[k].medicineId

\* the two examples: remaining 10 gives refill-end at today + 10 days and refill-soon
\* at today + 3 days, remaining 5 gives refill-end at today + 5 days only
C16_Witness ==
  LET alerts == buildMedicineAlerts(panelMedicines, panelToday) IN
  \E i \in 1..Len(panelMedicines), j \in 1..Len(panelMedicines) :
    /\ panelMedicines[i].remaining = 10 /\ panelMedicines[i].lastUpdated = panelToday
    /\ panelMedicines[j].remaining = 5 /\ panelMedicines[j].lastUpdated = panelToday
    /\ \E k \in AlertsFor(alerts, panelMedicines[i].id, "refill-end") :
         alerts[k].scheduledAt = panelToday + 10 * MS_DAY
    /\ \E k \in AlertsFor(alerts, panelMedicines[i].id, "refill-soon") :
         alerts[k].scheduledAt = panelToday + 3 * MS_DAY
    /\ \E k \in AlertsFor(alerts, panelMedicines[j].id, "refill-end") :
         alerts[k].scheduledAt = panelToday + 5 * MS_DAY
    /\ AlertsFor(alerts, panelMedicines[j].id, "refill-soon") = {}

\* C17: after any sequence of add, increment/decrement, set-exact, toggle and decay
\* operations every medicine's remaining lies within [0, 365].
C17_RemainingInRange ==
  \A i \in 1..Len(panelMedicines) :
    panelMedicines[i].remaining >= 0 /\ panelMedicines[i].remaining <= 365

\* a medicine entered with 400 days stands at the upper limit, it was incremented
\* there, and another was set below zero and stands at 0
C17_Witness ==
  \E i \in 1..Len(panelMedicines), j \in 1..Len(panelMedicines) :
    /\ panelMedicines[i].remaining = 365
    /\ panelMedicines[j].remaining = 0
    /\ manualBase[j].remaining = 0

\* ------------------------------------------------------------ expense recurrence
\* the start of the anchor's calendar day
AnchorDay == (calExpense.date \div MS_DAY) * MS_DAY

\* C18: a weekly expense anchored on day D is due on day X exactly when X is not
\* before D and the whole-day difference X - D is a multiple of 7: due at D, D+7 and
\* D+14, not due at D+3 and D+10, and not due on any day before D.
C18_WeeklyRecurrence ==
  calExpense.frequency = "weekly" =>
    /\ calDue <=> (calDay >= AnchorDay /\ ((calDay - AnchorDay) \div MS_DAY) % 7 = 0)
    /\ calDay \in {AnchorDay, AnchorDay + 7 * MS_DAY, AnchorDay + 14 * MS_DAY} => calDue
    /\ calDay \in {AnchorDay + 3 * MS_DAY, AnchorDay + 10 * MS_DAY} => ~calDue
    /\ calDay < AnchorDay => ~calDue

\* a weekly expense is found due two weeks after its anchor day
C18_Witness ==
  /\ calExpense.frequency = "weekly"
  /\ calDay = AnchorDay + 14 * MS_DAY
  /\ calDue

\* the days of the calendar month of calDay, and the ones the expense is due on
MonthDays ==
  LET cur == DateOf(calDay)
      first == calDay - (cur.date - 1) * MS_DAY
  IN {first + k * MS_DAY : k \in 0..(DaysInMonth(cur.year, cur.month) - 1)}

DueDays == {d \in MonthDays : isExpenseDueOnDay(calExpense, d)}

\* C19: monthly clamp. In the anchor's month and in every later month a monthly
\* expense is due on exactly one day, the anchor's day of the month or the month's
\* last day when the month is shorter, and on no day of an earlier month; anchored on
\* the 31st it is due on 28 February of a non-leap year and on 29 February, not 28
\* February, of a leap year.
C19_MonthlyClamp ==
  calExpense.frequency = "monthly" =>
    /\ calDue <=> calDay \in DueDays
    /\ IF \E d \in MonthDays : d >= AnchorDay
         THEN /\ Cardinality(DueDays) = 1
              /\ \A d \in DueDays :
                   DateOf(d).date = Min(DateOf(AnchorDay).date,
                                        DaysInMonth(DateOf(calDay).year, DateOf(calDay).month))
         ELSE DueDays = {}
    /\ DateOf(AnchorDay).date = 31 =>
         /\ calDay = 58 * MS_DAY => (calDue /\ DateOf(calDay) = [year |-> EpochYear, month |-> 2, date |-> 28])
         /\ calDay = 423 * MS_DAY => ~calDue
         /\ calDay = 424 * MS_DAY => (calDue /\ DateOf(calDay) = [year |-> EpochYear + 1, month |-> 2, date |-> 29])

\* a monthly expense anchored on the 31st is found due on 29 February of the leap year
C19_Witness ==
  /\ calExpense.frequency = "monthly"
  /\ DateOf(AnchorDay).date = 31
  /\ calDay = 424 * MS_DAY
  /\ calDue

\* ------------------------------------------------------------ daily top 5
\* the ids of the tasks that are incomplete and due on or before today's calendar day
CandidateIds ==
  {topTodos[i].id : i \in {j \in 1..Len(topTodos) :
      /\ ~topTodos[j].completed
      /\ topTodos[j].dueDate # Undefined
      /\ topTodos[j].dueDate \div MS_DAY <= topNowTs \div MS_DAY}}

\* C20: buildDailyTop5Snapshot returns at most 5 entries with distinct task ids, each
\* of an incomplete task with a due date on or before today's calendar day; completed
\* tasks, undated tasks and tasks due after today never appear, and when fewer than 5
\* candidates exist all of them appear.
C20_Top5Candidates ==
  LET snap == buildDailyTop5Snapshot(topTodos, topNowTs) IN
  /\ Len(snap) <= 5
  /\ \A i \in 1..Len(snap), j \in 1..Len(snap) : snap[i].id = snap[j].id => i = j
  /\ \A i \in 1..Len(snap) : snap[i].id \in CandidateIds
  /\ Len(snap) = Min(5, Cardinality(CandidateIds))
  /\ Cardinality(CandidateIds) <= 5 => {snap[i].id : i \in 1..Len(snap)} = CandidateIds

\* six tasks are due, one was due only after midnight passed, and the snapshot has 5
C20_Witness ==
  /\ Cardinality(CandidateIds) = 6
  /\ Len(buildDailyTop5Snapshot(topTodos, topNowTs)) = 5
  /\ \E i \in 1..Len(topTodos) : topTodos[i].dueDate = 2 * MS_DAY + 12 * MS_HOUR

\* the task of the list with the id
TopTodoOf(id) == CHOOSE todo \in {topTodos[i] : i \in 1..Len(topTodos)} : todo.id = id

\* the candidates, in the order of the list
TopCandidates ==
  SelectSeq(topTodos, LAMBDA todo : todo.id \in CandidateIds)

\* the priority ordinal of a task, P1 < P2 < P3 < P4, a task without priority counting as P4
PriorityOrdinal(todo) ==
  CASE todo.priority = "P1" -> 1 [] todo.priority = "P2" -> 2
    [] todo.priority = "P3" -> 3 [] OTHER -> 4

\* the complexity of a task (in tenths) as the nearest integer, at least 1, and 1 when
\* the task has none
ComplexityRank(todo) ==
  IF todo.complexity = Undefined \/ todo.complexity < 15 THEN 1
  ELSE CHOOSE n \in 1..11 : 10 * n - 5 <= todo.complexity /\ todo.complexity < 10 * n + 5

\* a ranks strictly before b by (priority ordinal, complexity, createdAt)
RanksBefore(a, b) ==
  \/ PriorityOrdinal(a) < PriorityOrdinal(b)
  \/ /\ PriorityOrdinal(a) = PriorityOrdinal(b)
     /\ \/ ComplexityRank(a) < ComplexityRank(b)
        \/ ComplexityRank(a) = ComplexityRank(b) /\ a.createdAt < b.createdAt

\* the priority and complexity of each task of a list
PriorityAndComplexity(list) ==
  [i \in 1..Len(list) |-> <<list[i].priority, list[i].complexity>>]

\* the candidates are the tasks of the example, in its order
ExampleTasks ==
  PriorityAndComplexity(TopCandidates) = << <<"P2", 30>>, <<"P1", 90>>, <<"P1", 20>> >>

\* C21: the snapshot is in ascending order of (priority ordinal, complexity rounded and
\* at least 1, createdAt), each entry carries its task's complexity number, no candidate
\* left out ranks strictly before an entry, and the candidates P2/3, P1/9, P1/2 come
\* out as P1/2, P1/9, P2/3.
C21_Top5Sorted ==
  LET snap == buildDailyTop5Snapshot(topTodos, topNowTs)
      in == {snap[i].id : i \in 1..Len(snap)}
  IN /\ \A i \in 1..Len(snap), j \in 1..Len(snap) :
          i < j => ~RanksBefore(TopTodoOf(snap[j].id), TopTodoOf(snap[i].id))
     /\ \A i \in 1..Len(snap) : snap[i].number = ComplexityRank(TopTodoOf(snap[i].id))
     /\ \A id \in CandidateIds \ in : \A i \in 1..Len(snap) :
          ~RanksBefore(TopTodoOf(id), TopTodoOf(snap[i].id))
     /\ ExampleTasks =>
          [i \in 1..Len(snap) |-> <<snap[i].priority, snap[i].number>>]
            = << <<"P1", 2>>, <<"P1", 9>>, <<"P2", 3>> >>

\* the candidates are the tasks of the example, and they come out in another order
C21_Witness ==
  /\ ExampleTasks
  /\ Len(buildDailyTop5Snapshot(topTodos, topNowTs)) = 3
  /\ buildDailyTop5Snapshot(topTodos, topNowTs)[1].id = TopCandidates[3].id

\* ------------------------------------------------------------ daily top sync
\* a call of syncDailyTopSnapshot is made in the step
SyncCallMade == Len(syncInFlight') > Len(syncInFlight)

\* the content the call made in the step carries
SyncCallHash == syncInFlight'[Len(syncInFlight')].hash

\* C22 as stated: when the content becomes H, with H not the synced content and not
\* attempted within the cooldown, and then stays H, a sync call carrying H is eventually
\* made, whatever clock ticks, focus events and task edits re-run the effect meanwhile.
C22_SyncAttempted_AsStated ==
  \A h \in SyncContents : (owed = h) ~> (owed # h)

\* C23 as stated: once a sync call carrying H has returned successfully while H is the
\* content, the synced hash is H, and no further sync call carrying H is made while
\* the content remains H.
C23_SyncedOnSuccess_AsStated ==
  [][/\ settled' # NoHash => lastDailyTopHashRef' = settled'
     /\ SyncCallMade => (settled = NoHash \/ SyncCallHash # settled)]_vars

\* C24 as stated: a sync call carrying H is made only if no attempt for H has failed or
\* the cooldown has elapsed since the latest failed attempt for H began.
C24_FailureCooldown_AsStated ==
  [][SyncCallMade =>
       \/ sinceFailed[SyncCallHash] = Undefined
       \/ sinceFailed[SyncCallHash] >= DAILY_TOP_RETRY_COOLDOWN_MS]_vars

\* the synced hash changes only by the return of a call whose content is the current
\* one, and to that content
SyncedHashIsCurrent ==
  [][lastDailyTopHashRef' # lastDailyTopHashRef =>
       /\ lastDailyTopHashRef' = syncContent
       /\ \E i \in 1..Len(syncInFlight) :
            /\ syncInFlight[i].hash = syncContent
            /\ syncInFlight' = WithoutAt(syncInFlight, i)]_vars

\* C26 as stated: the completion of a call whose content has been replaced does not set
\* the synced hash, which is only ever set to the content that is current when its call
\* returns, and the content B that replaced A while the call for A was in flight still
\* gets its sync call.
C26_StaleSyncIgnored_AsStated ==
  /\ SyncedHashIsCurrent
  /\ \A h \in SyncContents : (superseding = h) ~> (superseding # h)

\* ------------------------------------------------------------ reminders
\* the number of a priority
OrdinalOf(priority) ==
  CASE priority = "P1" -> 1 [] priority = "P2" -> 2 [] priority = "P3" -> 3
    [] priority = "P4" -> 4

\* C25 as stated: a reminder sent while priority Pn is selected carries priority n on
\* the wire, and priority is null only when no priority was supplied.
C25_ReminderPriority_AsStated ==
  \A i \in 1..Len(outbox) :
    /\ outbox[i].supplied \in Priorities =>
         outbox[i].priority = NumberValue(OrdinalOf(outbox[i].supplied))
    /\ outbox[i].priority = Null => outbox[i].supplied = NoPriority

\* the effects have run and every issued write has completed
AtRest == phase = "idle" /\ pending = << >>

\* C27 (as stated): also when passes overlap, once all issued writes have
\* completed the persisted notifications collection holds exactly the
\* notifications of the feed.
C27_StoreMirrorsFeed_AsStated ==
  AtRest => notifStore = Range(notifications)

\* what a getAll(c) called now can return: the fallback's records, when the flag is
\* set or the request to the database fails, or else the object store's records
GetAllOutcomes(c) ==
  {fallbackGetAll(webStorage, lsMode, c)}
    \cup (IF dbFailed THEN {} ELSE {SortedById(primary[c])})

\* C28 (as stated): read-your-writes across the fallback switch. With a working
\* localStorage and no call in flight, a getAll of todos returns every record that a
\* returned putItem wrote and no later call replaced or deleted, also when a failure
\* of the primary store has made, or makes, the fallback take over.
C28_ReadYourWrites_AsStated ==
  (lsMode = "ok" /\ calls = << >>) =>
    \A result \in GetAllOutcomes("todos") :
      \A r \in Range(reference["todos"]) : r \in Range(result)

\* C29 (as stated): a notification marked read is never later in the feed as
\* unread while its task is unchanged, whatever sweeps and reconciliation
\* passes run, unless the user marks it unread.
C29_ReadStaysRead_AsStated ==
  \A id \in readSince : TodoNotifs(notifications, id, FALSE) = {}

\* ------------------------------------------------------------ refill-end alerts
\* the day the supply of medicine i runs out, by its last manual edit
RunsOutOn(i) == manualBase[i].lastUpdated + manualBase[i].remaining * MS_DAY

\* the days of the refill-end alerts buildMedicineAlerts gives the medicine today
RefillEndDays(med) ==
  LET alerts == AlertsOfMedicine(med, panelToday) IN
  {alerts[k].scheduledAt : k \in AlertsFor(alerts, med.id, "refill-end")}

\* the refill-end notifications of a medicine in a feed
RefillEndNotifs(feed, id) ==
  {n \in Range(feed) : n.source = "medicine" /\ n.entityId = id /\ n.id.kind = "refill-end"}

\* the feed a pass makes of the medicines on the day that starts at `day`
FeedOn(feed, day) ==
  LET pass == syncGeneratedNotifications(feed, << >>, panelMedicines, << >>, day,
                                         day + 12 * MS_HOUR)
  IN IF pass.changed THEN pass.filtered ELSE feed

\* the feed of today with every entry marked read, after the effects of the rollover
\* to the next day: the pass, the sweep of the feed it started from, and the pass again
FeedAfterRollover ==
  LET today == FeedOn(<< >>, panelToday)
      shown == [k \in 1..Len(today) |-> [today[k] EXCEPT !.read = TRUE]]
      tomorrow == panelToday + MS_DAY
      passed == FeedOn(shown, tomorrow)
      toDeleteIds == Ids(sweepTargets(shown, tomorrow + 12 * MS_HOUR))
      swept == SelectSeq(passed, LAMBDA item : item.id \notin toDeleteIds)
  IN [before |-> shown, after |-> FeedOn(swept, tomorrow)]

\* today's refill-end alert of every medicine with the alarm on is on the day the
\* supply runs out or, with no supply left, on the later of that day and today
RefillEndOnRunOutDay ==
  \A i \in 1..Len(panelMedicines) :
    LET m == panelMedicines[i]
        supply == getRemainingDays(m, panelToday) IN
    m.alarmEnabled =>
      /\ supply > 0 => RefillEndDays(m) = {RunsOutOn(i)}
      /\ supply = 0 => RefillEndDays(m) = {Max(RunsOutOn(i), panelToday)}

\* over a rollover to a day with supply left, a read refill-end notification stays
\* the medicine's only refill-end notification, with its id and read
RefillEndKeptOverRollover ==
  LET roll == FeedAfterRollover IN
  \A i \in 1..Len(panelMedicines) :
    LET m == panelMedicines[i] IN
    (m.alarmEnabled /\ getRemainingDays(m, panelToday + MS_DAY) > 0) =>
      \A n \in RefillEndNotifs(roll.before, m.id) :
        n.read /\ RefillEndNotifs(roll.after, m.id) = {n}

====
